---------------------------- MODULE Spec2Model ----------------------------
(***************************************************************************)
(* Model of the wallet front-end: the provider adapter of                  *)
(* src/src/utils/wallet.ts (detection cache, connectWallet,                *)
(* sendTransaction, switchNetwork), its validation predicates, the submit  *)
(* path and the EIP-7702 check of src/src/components/TransactionForm.tsx,  *)
(* the application state of App.tsx with the listeners of Header.tsx, and  *)
(* the countdown of Notification.tsx.                                      *)
(*                                                                         *)
(* JavaScript strings are modelled as sequences of one-character strings,  *)
(* so that parsing, formatting and pattern matching are computed.          *)
(***************************************************************************)
EXTENDS Integers, Sequences, FiniteSets, TLC

VARIABLES
    window,          \* the execution environment inspected by detectRabbyWallet
    cachedProvider,  \* wallet.ts:4, the module-level cache slot
    op,              \* the last operation on the detection cache or the environment
    detectResult,    \* return value of the last detectRabbyWallet call
    pc,              \* position of the asynchronous call in flight
    args,            \* arguments of the call in flight
    locals,          \* local variables of the call in flight
    log,             \* provider requests issued by the call, with their replies
    outcome          \* how the promise of the call settled

walletVars == <<window, cachedProvider, op, detectResult, pc, args, locals, log, outcome>>

VARIABLES
    input,      \* the string handed to the validation predicates
    called,     \* the predicates that have been applied to it
    addressOk,  \* what isValidAddress returned for it
    calldataOk  \* what isValidCalldata returned for it

validationVars == <<input, called, addressOk, calldataOk>>

VARIABLES
    formData,      \* TransactionForm.tsx:19, {to, data, value}
    errors,        \* TransactionForm.tsx:25, "" where a field has no message
    ethValue,      \* TransactionForm.tsx:26
    valueUnit,     \* TransactionForm.tsx:17
    handler,       \* the handler that ran last
    onSubmitCall   \* the call of the onSubmit prop made by that handler, if any

formVars == <<formData, errors, ethValue, valueUnit, handler, onSubmitCall>>

VARIABLE
    lookups        \* the chain lookups made so far: function, argument, result

lookupVars == <<lookups>>

VARIABLES
    walletState,         \* App.tsx, the connection state
    isUnsupportedChain,  \* App.tsx, whether the chain of that state is unsupported
    isSubmitting,        \* App.tsx, a submission is in progress
    appError,            \* App.tsx, `error`: the error message or null
    showNotification,    \* App.tsx, whether the notification is shown
    appCall              \* the handler of the application that ran last, or is waiting

VARIABLES
    listeners,   \* the handlers registered on the providers with `on`
    timeLeft,    \* Notification, part_002:10
    timer,       \* Notification, whether the interval of part_002:16 is set
    elapsed,     \* the ticks of that interval since it was set
    effectDeps   \* the values the effects of Header and Notification last ran with

effectVars == <<listeners, timeLeft, timer, elapsed, effectDeps>>

appVars ==
    <<walletState, isUnsupportedChain, isSubmitting, appError, showNotification, appCall,
      effectVars>>

VARIABLES
    formProps,          \* TransactionForm.tsx:14, the provider and userAddress props
    isEIP7702User,      \* TransactionForm.tsx:15
    isCheckingEIP7702,  \* TransactionForm.tsx:16
    checks,             \* the calls of checkEIP7702Support waiting for detectEIP7702User
    effectRun,          \* how often the props changed or the form was unmounted
    lastSettled         \* the call of checkEIP7702Support that was resumed last

detectVars == <<formProps, isEIP7702User, isCheckingEIP7702, checks, effectRun, lastSettled>>

vars == <<walletVars, validationVars, formVars, lookupVars, appVars, detectVars>>

\* the variables each part of the program leaves alone
besidesWallet == <<validationVars, formVars, lookupVars, appVars, detectVars>>
besidesValidation == <<walletVars, formVars, lookupVars, appVars, detectVars>>
besidesForm == <<walletVars, validationVars, lookupVars, appVars, detectVars>>
besidesLookup == <<walletVars, validationVars, formVars, appVars, detectVars>>
besidesApp == <<validationVars, formVars, lookupVars, detectVars>>
besidesDetect == <<walletVars, validationVars, formVars, lookupVars, appVars>>

Null == "null"
Undefined == "undefined"

-----------------------------------------------------------------------------
(* Strings as character sequences.                                         *)

DecChars == <<"0", "1", "2", "3", "4", "5", "6", "7", "8", "9">>
HexLowerChars == DecChars \o <<"a", "b", "c", "d", "e", "f">>
HexUpperChars == DecChars \o <<"A", "B", "C", "D", "E", "F">>

Range(f) == {f[i] : i \in DOMAIN f}

WhiteSpace == {" ", "\n", "\t"}

\* the character classes [0-9] and [a-fA-F0-9]
DecClass == Range(DecChars)
HexClass == Range(HexLowerChars) \cup Range(HexUpperChars)

\* value of character c as a digit of the given radix, or -1 when it is none
DigitValue(c, radix) ==
    IF c \in HexClass /\ \E i \in 1..radix : HexLowerChars[i] = c \/ HexUpperChars[i] = c
    THEN (CHOOSE i \in 1..radix : HexLowerChars[i] = c \/ HexUpperChars[i] = c) - 1
    ELSE -1

RECURSIVE SkipWhite(_)
SkipWhite(s) ==
    IF s # <<>> /\ Head(s) \in WhiteSpace THEN SkipWhite(Tail(s)) ELSE s

StartsWith(s, p) == Len(s) >= Len(p) /\ SubSeq(s, 1, Len(p)) = p

\* the digits of s read left to right in the given radix, stopping at the
\* first character that is no digit: <<number of digits read, value>>
RECURSIVE ReadDigits(_, _, _, _)
ReadDigits(s, radix, n, acc) ==
    IF s = <<>> \/ DigitValue(Head(s), radix) < 0
    THEN <<n, acc>>
    ELSE ReadDigits(Tail(s), radix, n + 1, acc * radix + DigitValue(Head(s), radix))

NaN == [nan |-> TRUE, neg |-> FALSE, mag |-> 0]

\* ECMAScript parseInt(s, radix); radix 0 stands for an omitted radix
ParseInt(s, radix) ==
    LET t    == SkipWhite(s)
        neg  == t # <<>> /\ Head(t) = "-"
        u    == IF t # <<>> /\ Head(t) \in {"-", "+"} THEN Tail(t) ELSE t
        hexp == radix \in {0, 16} /\ (StartsWith(u, <<"0", "x">>) \/ StartsWith(u, <<"0", "X">>))
        r    == IF hexp THEN 16 ELSE IF radix = 0 THEN 10 ELSE radix
        v    == IF hexp THEN SubSeq(u, 3, Len(u)) ELSE u
        d    == ReadDigits(v, r, 0, 0)
    IN  IF d[1] = 0 THEN NaN ELSE [nan |-> FALSE, neg |-> neg, mag |-> d[2]]

RECURSIVE NatToString(_, _)
NatToString(n, radix) ==
    IF n < radix THEN <<HexLowerChars[n + 1]>>
    ELSE NatToString(n \div radix, radix) \o <<HexLowerChars[(n % radix) + 1]>>

\* Number.prototype.toString(radix)
NumberToString(x, radix) ==
    IF x.nan THEN <<"N", "a", "N">>
    ELSE IF x.neg /\ x.mag > 0 THEN <<"-">> \o NatToString(x.mag, radix)
    ELSE NatToString(x.mag, radix)


-----------------------------------------------------------------------------
(* The chain registry, wallet.ts:7-26.  Keys are decimal strings.          *)

Str1 == <<"1">>
Str56 == <<"5", "6">>
Str8453 == <<"8", "4", "5", "3">>

NETWORKS ==
    [k \in {Str1, Str56, Str8453} |->
        IF k = Str1 THEN
            [chainId |-> Str1, name |-> "Ethereum Mainnet", rpcUrl |-> Undefined,
             blockExplorer |-> "https://etherscan.io", currencySymbol |-> "ETH"]
        ELSE IF k = Str56 THEN
            [chainId |-> Str56, name |-> "BNB Smart Chain", rpcUrl |-> Undefined,
             blockExplorer |-> "https://bscscan.com", currencySymbol |-> "BNB"]
        ELSE
            [chainId |-> Str8453, name |-> "Base", rpcUrl |-> Undefined,
             blockExplorer |-> "https://basescan.org", currencySymbol |-> "ETH"]]

-----------------------------------------------------------------------------
(* The injected provider and the values it can answer with.                *)

Handles == {"R1", "E1"}

\* window: undefined (server side), with property getters that throw, or with
\* window.rabby and window.ethereum (and its isRabby flag) set or not
Windows ==
    {[defined |-> FALSE, throws |-> FALSE, rabby |-> Null, ethereum |-> Null, isRabby |-> FALSE],
     [defined |-> TRUE, throws |-> TRUE, rabby |-> Null, ethereum |-> Null, isRabby |-> FALSE]}
    \cup {[defined |-> TRUE, throws |-> FALSE, rabby |-> r, ethereum |-> Null, isRabby |-> FALSE] :
            r \in {Null, "R1"}}
    \cup {[defined |-> TRUE, throws |-> FALSE, rabby |-> r, ethereum |-> e, isRabby |-> b] :
            r \in {Null, "R1"}, e \in {"E1"}, b \in BOOLEAN}

\* account lists a provider may answer; null stands for a null answer
AccountLists ==
    {[null |-> TRUE, items |-> <<>>],
     [null |-> FALSE, items |-> <<>>],
     [null |-> FALSE, items |-> <<"A1">>],
     [null |-> FALSE, items |-> <<"A2", "A1">>]}

\* answers to eth_chainId: hex-prefixed per the provider protocol, and the
\* unprefixed form a non-conforming provider may give
ChainIdAnswers ==
    {<<"0", "x", "1">>, <<"0", "x", "3", "8">>, <<"0", "x", "2", "1", "0", "5">>,
     <<"0", "x", "5">>, Str56, Str1}

TxHashes == {"0xhash1", "0xhash2"}

UnknownChainCode == 4902

\* what a request may be rejected with: an Error instance or a plain object
\* carrying message and code, an object without message, a thrown string,
\* or undefined
Rejections ==
    {[type |-> "Error", hasMessage |-> TRUE, message |-> <<"User rejected the request.">>, code |-> 4001],
     [type |-> "object", hasMessage |-> TRUE, message |-> <<"Unrecognized chain ID">>, code |-> UnknownChainCode],
     [type |-> "object", hasMessage |-> FALSE, message |-> <<>>, code |-> 0],
     [type |-> "string", hasMessage |-> FALSE, message |-> <<>>, code |-> 0],
     [type |-> "undefined", hasMessage |-> FALSE, message |-> <<>>, code |-> 0]}

\* new Error(message)
NewError(message) == [type |-> "Error", hasMessage |-> TRUE, message |-> message, code |-> 0]

NoParams == [none |-> TRUE]
Request(method, params) ==
    [method |-> method, params |-> params, reply |-> "pending", value |-> Undefined]

\* the log with the reply to its last (pending) request recorded
Replied(l, reply, value) ==
    [l EXCEPT ![Len(l)] = [@ EXCEPT !.reply = reply, !.value = value]]

Pending == [state |-> "pending"]
Fulfilled(v) == [state |-> "fulfilled", value |-> v]
Rejected(e) == [state |-> "rejected", error |-> e]

Idle == [fn |-> "none", at |-> "idle"]
NoCallInFlight == pc.at \in {"idle", "settled"}
Awaiting(fn, method) == pc = [fn |-> fn, at |-> method]

NoLocals == [provider |-> Null, accounts |-> <<>>]
LocalsOf(provider) == [provider |-> provider, accounts |-> <<>>]
NoArgs == [none |-> TRUE]

-----------------------------------------------------------------------------
(* Provider detection and its cache, wallet.ts:29-66.                      *)

\* what an inspection of the environment finds, wallet.ts:35-60
inspectWindow(cache, w) ==
    IF ~w.defined THEN [result |-> Null, cache |-> cache]
    ELSE IF w.throws THEN [result |-> Null, cache |-> cache]
    ELSE IF w.rabby # Null THEN [result |-> w.rabby, cache |-> w.rabby]
    ELSE IF w.ethereum # Null /\ w.isRabby = TRUE
         THEN [result |-> w.ethereum, cache |-> w.ethereum]
    ELSE [result |-> Null, cache |-> cache]

detectRabbyWalletMutant(cache, w) == inspectWindow(cache, w)

\* detectRabbyWallet as a function of the cache slot and the environment:
\* the value returned and the cache slot afterwards, wallet.ts:29-61
detectRabbyWallet(cache, w) ==
    IF cache # Null THEN [result |-> cache, cache |-> cache]
    ELSE inspectWindow(cache, w)

\* the page, an extension or a test changes the environment
EnvChange ==
    /\ \E w \in Windows : w # window /\ window' = w
    /\ op' = "env"
    /\ UNCHANGED <<cachedProvider, detectResult, pc, args, locals, log, outcome, besidesWallet>>

DetectRabbyWallet ==
    /\ LET d == detectRabbyWallet(cachedProvider, window)
       IN  /\ cachedProvider' = d.cache
           /\ detectResult' = d.result
    /\ op' = "detect"
    /\ UNCHANGED <<window, pc, args, locals, log, outcome, besidesWallet>>

clearWalletCache ==
    /\ cachedProvider' = Null
    /\ op' = "clear"
    /\ UNCHANGED <<window, detectResult, pc, args, locals, log, outcome, besidesWallet>>

-----------------------------------------------------------------------------
(* connectWallet, wallet.ts:69-121.                                        *)

NoProviderMessage == <<"Rabby wallet not detected. Please install Rabby wallet extension.">>
NoAccountsMessage == <<"No accounts found. Please unlock your Rabby wallet.">>
ConnectFailedPrefix == "Failed to connect to Rabby wallet: "

\* the catch block of connectWallet, wallet.ts:114-120
connectWalletCatch(error) ==
    IF error.type = "Error"
    THEN NewError(<<ConnectFailedPrefix>> \o error.message)
    ELSE NewError(<<ConnectFailedPrefix, "Unknown error">>)

\* `currentAccounts && currentAccounts.length > 0`, wallet.ts:87
alreadyConnectedMutant(currentAccounts) == ~currentAccounts.null

alreadyConnected(currentAccounts) ==
    ~currentAccounts.null /\ Len(currentAccounts.items) > 0

\* `!accounts || accounts.length === 0`, wallet.ts:97
noAccounts(accounts) == accounts.null \/ Len(accounts.items) = 0

\* the normalization shared by getCurrencySymbol, isChainSupported and the
\* header, wallet.ts:291-295
normalizeChainId(chainId) ==
    IF StartsWith(chainId, <<"0", "x">>)
    THEN NumberToString(ParseInt(chainId, 16), 10)
    ELSE chainId

chainIdOfAnswerMutant(hexChainId) == normalizeChainId(hexChainId)

\* `parseInt(hexChainId, 16).toString()`, wallet.ts:107
chainIdOfAnswer(hexChainId) == NumberToString(ParseInt(hexChainId, 16), 10)

\* the call, up to its first await
connectWallet ==
    /\ NoCallInFlight
    /\ op' = "detect"
    /\ args' = NoArgs
    /\ LET d == detectRabbyWallet(cachedProvider, window)
       IN  /\ cachedProvider' = d.cache
           /\ detectResult' = d.result
           /\ IF d.result = Null
              THEN /\ pc' = [fn |-> "connectWallet", at |-> "settled"]
                   /\ log' = <<>>
                   /\ locals' = NoLocals
                   /\ outcome' = Rejected(NewError(NoProviderMessage))
              ELSE /\ pc' = [fn |-> "connectWallet", at |-> "eth_accounts"]
                   /\ log' = <<Request("eth_accounts", NoParams)>>
                   /\ locals' = LocalsOf(d.result)
                   /\ outcome' = Pending
    /\ UNCHANGED <<window, besidesWallet>>

\* eth_accounts answered, wallet.ts:82-104
connectWalletAccounts ==
    /\ Awaiting("connectWallet", "eth_accounts")
    /\ \E currentAccounts \in AccountLists :
         IF alreadyConnected(currentAccounts)
         THEN /\ locals' = [locals EXCEPT !.accounts = currentAccounts.items]
              /\ log' = Replied(log, "resolved", currentAccounts)
                            \o <<Request("eth_chainId", NoParams)>>
              /\ pc' = [pc EXCEPT !.at = "eth_chainId"]
         ELSE /\ locals' = locals
              /\ log' = Replied(log, "resolved", currentAccounts)
                            \o <<Request("eth_requestAccounts", NoParams)>>
              /\ pc' = [pc EXCEPT !.at = "eth_requestAccounts"]
    /\ UNCHANGED <<window, cachedProvider, op, detectResult, args, outcome, besidesWallet>>

\* eth_requestAccounts answered, wallet.ts:92-104
connectWalletRequestAccounts ==
    /\ Awaiting("connectWallet", "eth_requestAccounts")
    /\ \E accounts \in AccountLists :
         IF noAccounts(accounts)
         THEN /\ locals' = locals
              /\ log' = Replied(log, "resolved", accounts)
              /\ pc' = [pc EXCEPT !.at = "settled"]
              /\ outcome' = Rejected(connectWalletCatch(NewError(NoAccountsMessage)))
         ELSE /\ locals' = [locals EXCEPT !.accounts = accounts.items]
              /\ log' = Replied(log, "resolved", accounts)
                            \o <<Request("eth_chainId", NoParams)>>
              /\ pc' = [pc EXCEPT !.at = "eth_chainId"]
              /\ outcome' = outcome
    /\ UNCHANGED <<window, cachedProvider, op, detectResult, args, besidesWallet>>

\* eth_chainId answered, wallet.ts:102-113
connectWalletChainId ==
    /\ Awaiting("connectWallet", "eth_chainId")
    /\ \E hexChainId \in ChainIdAnswers :
         /\ log' = Replied(log, "resolved", hexChainId)
         /\ outcome' = Fulfilled([provider |-> locals.provider,
                                  account |-> locals.accounts[1],
                                  chainId |-> chainIdOfAnswer(hexChainId)])
    /\ pc' = [pc EXCEPT !.at = "settled"]
    /\ UNCHANGED <<window, cachedProvider, op, detectResult, args, locals, besidesWallet>>

\* any of its requests rejected, wallet.ts:114-120
connectWalletRejected ==
    /\ pc.fn = "connectWallet" /\ ~NoCallInFlight
    /\ \E error \in Rejections :
         /\ log' = Replied(log, "rejected", error)
         /\ outcome' = Rejected(connectWalletCatch(error))
    /\ pc' = [pc EXCEPT !.at = "settled"]
    /\ UNCHANGED <<window, cachedProvider, op, detectResult, args, locals, besidesWallet>>

-----------------------------------------------------------------------------
(* sendTransaction, wallet.ts:147-194.                                     *)

\* transaction requests handed to sendTransaction; value may be absent
\* (undefined) or empty
TransactionRequests ==
    [to : {"0xTo"}, data : {"0x", "0xa9059cbb"},
     value : {Undefined, "", "0xde0b6b3a7640000"}]

NoAccountsConnectedMessage == <<"No accounts connected">>

txParamsMutant(from, transaction) ==
    [from |-> from, to |-> transaction.to, data |-> transaction.data,
     hasValue |-> transaction.value # Undefined, value |-> transaction.value]

\* the provider-native payload, wallet.ts:162-167
txParams(from, transaction) ==
    IF transaction.value \notin {Undefined, ""}
    THEN [from |-> from, to |-> transaction.to, data |-> transaction.data,
          hasValue |-> TRUE, value |-> transaction.value]
    ELSE [from |-> from, to |-> transaction.to, data |-> transaction.data,
          hasValue |-> FALSE, value |-> Undefined]

sendTransactionCatchMutant(error) ==
    [hash |-> "", success |-> FALSE, hasError |-> TRUE, error |-> <<"Unknown error">>]

\* the catch block of sendTransaction, wallet.ts:179-193
sendTransactionCatch(error) ==
    LET errorMessage ==
            IF error.type \in {"Error", "object"} /\ error.hasMessage THEN error.message
            ELSE IF error.type = "Error" THEN error.message
            ELSE <<"Unknown error">>
    IN  [hash |-> "", success |-> FALSE, hasError |-> TRUE, error |-> errorMessage]

\* the success result, wallet.ts:175-178
sendTransactionResult(txHash) ==
    [hash |-> txHash, success |-> TRUE, hasError |-> FALSE, error |-> <<>>]

\* the call, up to its first await
sendTransaction ==
    /\ NoCallInFlight
    /\ \E provider \in Handles, transaction \in TransactionRequests :
         /\ args' = [provider |-> provider, transaction |-> transaction]
         /\ locals' = LocalsOf(provider)
    /\ pc' = [fn |-> "sendTransaction", at |-> "eth_accounts"]
    /\ log' = <<Request("eth_accounts", NoParams)>>
    /\ outcome' = Pending
    /\ UNCHANGED <<window, cachedProvider, op, detectResult, besidesWallet>>

\* eth_accounts answered, wallet.ts:153-173
sendTransactionAccounts ==
    /\ Awaiting("sendTransaction", "eth_accounts")
    /\ \E accounts \in AccountLists :
         IF noAccounts(accounts)
         THEN /\ log' = Replied(log, "resolved", accounts)
              /\ locals' = locals
              /\ pc' = [pc EXCEPT !.at = "settled"]
              /\ outcome' = Fulfilled(sendTransactionCatch(NewError(NoAccountsConnectedMessage)))
         ELSE /\ log' = Replied(log, "resolved", accounts)
                            \o <<Request("eth_sendTransaction",
                                         txParams(accounts.items[1], args.transaction))>>
              /\ locals' = [locals EXCEPT !.accounts = accounts.items]
              /\ pc' = [pc EXCEPT !.at = "eth_sendTransaction"]
              /\ outcome' = outcome
    /\ UNCHANGED <<window, cachedProvider, op, detectResult, args, besidesWallet>>

\* eth_sendTransaction answered, wallet.ts:170-178
sendTransactionSent ==
    /\ Awaiting("sendTransaction", "eth_sendTransaction")
    /\ \E txHash \in TxHashes :
         /\ log' = Replied(log, "resolved", txHash)
         /\ outcome' = Fulfilled(sendTransactionResult(txHash))
    /\ pc' = [pc EXCEPT !.at = "settled"]
    /\ UNCHANGED <<window, cachedProvider, op, detectResult, args, locals, besidesWallet>>

\* either request rejected, wallet.ts:179-193
sendTransactionRejected ==
    /\ pc.fn = "sendTransaction" /\ ~NoCallInFlight
    /\ \E error \in Rejections :
         /\ log' = Replied(log, "rejected", error)
         /\ outcome' = Fulfilled(sendTransactionCatch(error))
    /\ pc' = [pc EXCEPT !.at = "settled"]
    /\ UNCHANGED <<window, cachedProvider, op, detectResult, args, locals, besidesWallet>>

-----------------------------------------------------------------------------
(* switchNetwork, wallet.ts:197-235.                                       *)

\* chain identifiers handed to switchNetwork: registry keys, a hex-prefixed
\* form of one, and identifiers the registry does not hold
SwitchTargets ==
    {Str1, Str8453, <<"0", "x", "3", "8">>, <<"9", "9", "9">>}

NativeDecimals == 18

\* `0x${parseInt(chainId).toString(16)}`, wallet.ts:206 and 216
hexChainIdParam(chainId) == <<"0", "x">> \o NumberToString(ParseInt(chainId, 0), 16)

\* the wallet_addEthereumChain parameters, wallet.ts:215-225
addChainParams(chainId, network) ==
    [chainId |-> hexChainIdParam(chainId),
     chainName |-> network.name,
     nativeCurrency |-> [name |-> network.currencySymbol,
                         symbol |-> network.currencySymbol,
                         decimals |-> NativeDecimals],
     rpcUrls |-> <<network.rpcUrl>>,
     blockExplorerUrls |-> IF network.blockExplorer # Undefined
                           THEN <<network.blockExplorer>> ELSE <<>>]

switchNetworkCatchSwallowMutant(error, chainId) ==
    IF error.type = "undefined" THEN "typeerror"
    ELSE IF error.type # "string" /\ error.code = UnknownChainCode
         THEN IF chainId \in DOMAIN NETWORKS THEN "add" ELSE "return"
    ELSE "return"

switchNetworkCatchMutant(error, chainId) ==
    IF error.type = "undefined" THEN "typeerror" ELSE "throw"

\* what the inner catch block does with a rejected switch request,
\* wallet.ts:208-231: "add" (request wallet_addEthereumChain), "return"
\* (fall through and resolve), "throw" (rethrow the error) or "typeerror"
\* (reading .code of undefined throws)
switchNetworkCatch(error, chainId) ==
    IF error.type = "undefined" THEN "typeerror"
    ELSE IF error.type # "string" /\ error.code = UnknownChainCode
         THEN IF chainId \in DOMAIN NETWORKS THEN "add" ELSE "return"
    ELSE "throw"

CodeOfUndefinedError ==
    [type |-> "Error", hasMessage |-> TRUE,
     message |-> <<"Cannot read properties of undefined (reading 'code')">>, code |-> 0]

\* the call, up to its first await
switchNetwork ==
    /\ NoCallInFlight
    /\ \E provider \in Handles, chainId \in SwitchTargets :
         /\ args' = [provider |-> provider, chainId |-> chainId]
         /\ locals' = LocalsOf(provider)
         /\ log' = <<Request("wallet_switchEthereumChain",
                             [chainId |-> hexChainIdParam(chainId)])>>
    /\ pc' = [fn |-> "switchNetwork", at |-> "wallet_switchEthereumChain"]
    /\ outcome' = Pending
    /\ UNCHANGED <<window, cachedProvider, op, detectResult, besidesWallet>>

\* wallet_switchEthereumChain accepted, wallet.ts:204-207
switchNetworkSwitched ==
    /\ Awaiting("switchNetwork", "wallet_switchEthereumChain")
    /\ log' = Replied(log, "resolved", Null)
    /\ outcome' = Fulfilled(Undefined)
    /\ pc' = [pc EXCEPT !.at = "settled"]
    /\ UNCHANGED <<window, cachedProvider, op, detectResult, args, locals, besidesWallet>>

\* wallet_switchEthereumChain rejected, wallet.ts:208-234
switchNetworkSwitchRejected ==
    /\ Awaiting("switchNetwork", "wallet_switchEthereumChain")
    /\ \E error \in Rejections :
         LET todo == switchNetworkCatch(error, args.chainId)
         IN  IF todo = "add"
             THEN /\ log' = Replied(log, "rejected", error)
                               \o <<Request("wallet_addEthereumChain",
                                            addChainParams(args.chainId, NETWORKS[args.chainId]))>>
                  /\ pc' = [pc EXCEPT !.at = "wallet_addEthereumChain"]
                  /\ outcome' = outcome
             ELSE /\ log' = Replied(log, "rejected", error)
                  /\ pc' = [pc EXCEPT !.at = "settled"]
                  /\ outcome' = IF todo = "return" THEN Fulfilled(Undefined)
                                ELSE IF todo = "throw" THEN Rejected(error)
                                ELSE Rejected(CodeOfUndefinedError)
    /\ UNCHANGED <<window, cachedProvider, op, detectResult, args, locals, besidesWallet>>

\* wallet_addEthereumChain accepted, wallet.ts:213-227
switchNetworkAdded ==
    /\ Awaiting("switchNetwork", "wallet_addEthereumChain")
    /\ log' = Replied(log, "resolved", Null)
    /\ outcome' = Fulfilled(Undefined)
    /\ pc' = [pc EXCEPT !.at = "settled"]
    /\ UNCHANGED <<window, cachedProvider, op, detectResult, args, locals, besidesWallet>>

\* wallet_addEthereumChain rejected, wallet.ts:213-234
switchNetworkAddRejected ==
    /\ Awaiting("switchNetwork", "wallet_addEthereumChain")
    /\ \E error \in Rejections :
         /\ log' = Replied(log, "rejected", error)
         /\ outcome' = Rejected(error)
    /\ pc' = [pc EXCEPT !.at = "settled"]
    /\ UNCHANGED <<window, cachedProvider, op, detectResult, args, locals, besidesWallet>>

-----------------------------------------------------------------------------
(* checkAddressHasCode and detectEIP7702User, eip7702.ts:4-33.             *)

\* addresses asked about, and what eth_getCode may answer: the two
\* empty-code answers, code, an answer of another shape, nothing at all
CodeAddresses == {"0xUser", "0xOther"}
CodeAnswers == {"0x", "0x0", "0x00", "0xef0100aa", "", Null}

hasCodeMutant(code) == code # "0x"

\* `code !== '0x' && code !== '0x0'`, eip7702.ts:15
hasCode(code) == code # "0x" /\ code # "0x0"

\* what detectEIP7702User makes of the promise of checkAddressHasCode,
\* eip7702.ts:26-32
detectEIP7702UserSettled(inner) ==
    IF inner.state = "fulfilled" THEN inner ELSE Fulfilled(FALSE)

\* what the entry function settles with, given the promise of
\* checkAddressHasCode
codeCheckSettled(fn, inner) ==
    IF fn = "detectEIP7702User" THEN detectEIP7702UserSettled(inner) ELSE inner

\* either function called, up to the await of eth_getCode, eip7702.ts:8-12
checkAddressHasCode ==
    /\ NoCallInFlight
    /\ \E fn \in {"checkAddressHasCode", "detectEIP7702User"},
          provider \in Handles, address \in CodeAddresses :
         /\ pc' = [fn |-> fn, at |-> "eth_getCode"]
         /\ args' = [provider |-> provider, address |-> address]
         /\ locals' = LocalsOf(provider)
         /\ log' = <<Request("eth_getCode", [address |-> address, block |-> "latest"])>>
    /\ outcome' = Pending
    /\ UNCHANGED <<window, cachedProvider, op, detectResult, besidesWallet>>

\* eth_getCode answered, eip7702.ts:14-15
checkAddressHasCodeAnswered ==
    /\ pc.fn \in {"checkAddressHasCode", "detectEIP7702User"} /\ pc.at = "eth_getCode"
    /\ \E code \in CodeAnswers :
         /\ log' = Replied(log, "resolved", code)
         /\ outcome' = codeCheckSettled(pc.fn, Fulfilled(hasCode(code)))
    /\ pc' = [pc EXCEPT !.at = "settled"]
    /\ UNCHANGED <<window, cachedProvider, op, detectResult, args, locals, besidesWallet>>

\* eth_getCode rejected, eip7702.ts:16-18
checkAddressHasCodeRejected ==
    /\ pc.fn \in {"checkAddressHasCode", "detectEIP7702User"} /\ pc.at = "eth_getCode"
    /\ \E error \in Rejections :
         /\ log' = Replied(log, "rejected", error)
         /\ outcome' = codeCheckSettled(pc.fn, Fulfilled(FALSE))
    /\ pc' = [pc EXCEPT !.at = "settled"]
    /\ UNCHANGED <<window, cachedProvider, op, detectResult, args, locals, besidesWallet>>

-----------------------------------------------------------------------------
(* The provider adapter as a whole.                                        *)

WalletInit ==
    /\ window \in Windows
    /\ cachedProvider = Null
    /\ op = "none"
    /\ detectResult = Undefined
    /\ pc = Idle
    /\ args = NoArgs
    /\ locals = NoLocals
    /\ log = <<>>
    /\ outcome = Pending

WalletNext ==
    \/ EnvChange
    \/ DetectRabbyWallet
    \/ clearWalletCache
    \/ connectWallet
    \/ connectWalletAccounts
    \/ connectWalletRequestAccounts
    \/ connectWalletChainId
    \/ connectWalletRejected
    \/ sendTransaction
    \/ sendTransactionAccounts
    \/ sendTransactionSent
    \/ sendTransactionRejected
    \/ switchNetwork
    \/ switchNetworkSwitched
    \/ switchNetworkSwitchRejected
    \/ switchNetworkAdded
    \/ switchNetworkAddRejected
    \/ checkAddressHasCode
    \/ checkAddressHasCodeAnswered
    \/ checkAddressHasCodeRejected

-----------------------------------------------------------------------------
(* Validation predicates, wallet.ts:262-270.                               *)

AddressHexLength == 40

\* /^0x[a-fA-F0-9]{40}$/ and /^0x[a-fA-F0-9]*$/ as sequences of quantified
\* character classes, anchored at both ends
AddressPattern ==
    <<[chars |-> {"0"}, min |-> 1, max |-> 1, bounded |-> TRUE],
      [chars |-> {"x"}, min |-> 1, max |-> 1, bounded |-> TRUE],
      [chars |-> HexClass, min |-> AddressHexLength, max |-> AddressHexLength,
       bounded |-> TRUE]>>

CalldataPattern ==
    <<[chars |-> {"0"}, min |-> 1, max |-> 1, bounded |-> TRUE],
      [chars |-> {"x"}, min |-> 1, max |-> 1, bounded |-> TRUE],
      [chars |-> HexClass, min |-> 0, max |-> 0, bounded |-> FALSE]>>

\* the number of leading characters of s that belong to the class
RECURSIVE LeadingIn(_, _)
LeadingIn(s, chars) ==
    IF s = <<>> \/ Head(s) \notin chars THEN 0 ELSE 1 + LeadingIn(Tail(s), chars)

\* RegExp.prototype.test for a pattern of the above form: every item takes
\* at least min and (when bounded) at most max characters of its class, and
\* the last one must end at the end of the input
RECURSIVE RegexTest(_, _)
RegexTest(pattern, s) ==
    IF pattern = <<>> THEN s = <<>>
    ELSE LET item == Head(pattern)
             run  == LeadingIn(s, item.chars)
             most == IF ~item.bounded \/ item.max > run THEN run ELSE item.max
         IN  \E k \in item.min..most :
                 RegexTest(Tail(pattern), SubSeq(s, k + 1, Len(s)))

isValidAddressShortMutant(address) ==
    RegexTest([AddressPattern EXCEPT ![3].min = AddressHexLength - 1,
                                     ![3].max = AddressHexLength - 1], address)

isValidAddressMutant(address) ==
    RegexTest([AddressPattern EXCEPT ![3].bounded = FALSE], address)

isValidAddress(address) == RegexTest(AddressPattern, address)

isValidCalldataMutant(calldata) ==
    RegexTest([CalldataPattern EXCEPT ![3].chars = Range(HexLowerChars)], calldata)

isValidCalldata(calldata) == RegexTest(CalldataPattern, calldata)

\* The strings tried: a prefix, a run of one hexadecimal character of a
\* length near 0 or near the address length, possibly with one character
\* replaced by a foreign one, possibly followed by a line break.
MaxShort == 2
Slack == 1

RECURSIVE Fill(_, _)
Fill(c, n) == IF n = 0 THEN <<>> ELSE <<c>> \o Fill(c, n - 1)

Prefixes ==
    {<<>>, <<"0", "x">>, <<"0", "X">>, <<"x">>, <<"0">>, <<" ", "0", "x">>, <<"1", "x">>}
FillChars == {"a", "F", "7", "0"}
ForeignChars == {"g", "G", "x", " ", "-"}
BodyLengths ==
    (0..MaxShort) \cup ((AddressHexLength - Slack)..(AddressHexLength + Slack))

Bodies ==
    LET plain == {Fill(c, n) : c \in FillChars, n \in BodyLengths}
    IN  plain
        \cup {[b EXCEPT ![1] = g] : b \in plain \ {<<>>}, g \in ForeignChars}
        \cup {[b EXCEPT ![Len(b)] = g] : b \in plain \ {<<>>}, g \in ForeignChars}
        \cup {b \o <<"\n">> : b \in plain}

Inputs == {p \o b : p \in Prefixes, b \in Bodies}

ValidationInit ==
    /\ input \in Inputs
    /\ called = {}
    /\ addressOk = FALSE
    /\ calldataOk = FALSE

\* no predicate under test: the state of these variables in the other
\* specifications
ValidationUnused ==
    /\ input = <<>>
    /\ called = {}
    /\ addressOk = FALSE
    /\ calldataOk = FALSE

CallIsValidAddress ==
    /\ "isValidAddress" \notin called
    /\ called' = called \cup {"isValidAddress"}
    /\ addressOk' = isValidAddress(input)
    /\ UNCHANGED <<input, calldataOk, besidesValidation>>

CallIsValidCalldata ==
    /\ "isValidCalldata" \notin called
    /\ called' = called \cup {"isValidCalldata"}
    /\ calldataOk' = isValidCalldata(input)
    /\ UNCHANGED <<input, addressOk, besidesValidation>>

ValidationNext == CallIsValidAddress \/ CallIsValidCalldata

-----------------------------------------------------------------------------
(* Numerals of arbitrary size, as the form's value path handles them:      *)
(* BigInt and the ethers helpers work on exact integers, parseInt and      *)
(* parseFloat on IEEE doubles.  An integer is a sign and a sequence of     *)
(* decimal characters without leading zeros.                               *)

IsDigits(s) == \A i \in 1..Len(s) : s[i] \in DecClass

RECURSIVE StripZeros(_)
StripZeros(s) ==
    IF Len(s) > 1 /\ Head(s) = "0" THEN StripZeros(Tail(s)) ELSE s

RECURSIVE SkipWhiteEnd(_)
SkipWhiteEnd(s) ==
    IF s # <<>> /\ s[Len(s)] \in WhiteSpace THEN SkipWhiteEnd(SubSeq(s, 1, Len(s) - 1)) ELSE s

Trim(s) == SkipWhiteEnd(SkipWhite(s))

NotAnInteger == [ok |-> FALSE, neg |-> FALSE, digits |-> <<"0">>]
Integer(neg, digits) ==
    [ok |-> TRUE, neg |-> neg /\ StripZeros(digits) # <<"0">>, digits |-> StripZeros(digits)]

\* the digits of a hexadecimal numeral small enough for machine integers
HexToDecimalDigits(h) == NatToString(ReadDigits(h, 16, 0, 0)[2], 10)

hexNumeral(h) ==
    IF h # <<>> /\ \A i \in 1..Len(h) : h[i] \in HexClass
    THEN Integer(FALSE, HexToDecimalDigits(h))
    ELSE NotAnInteger

decimalNumeral(neg, u) ==
    IF u # <<>> /\ IsDigits(u) THEN Integer(neg, u) ELSE NotAnInteger

\* StringToBigInt of a string without white space around it
trimmedToBigInt(t) ==
    IF t = <<>> THEN Integer(FALSE, <<"0">>)
    ELSE IF StartsWith(t, <<"0", "x">>) \/ StartsWith(t, <<"0", "X">>)
         THEN hexNumeral(SubSeq(t, 3, Len(t)))
    ELSE IF Head(t) \in {"-", "+"} THEN decimalNumeral(Head(t) = "-", Tail(t))
    ELSE decimalNumeral(FALSE, t)

\* BigInt(string): white space around an optionally signed decimal
\* numeral or an unsigned 0x numeral; the empty string is zero
StringToBigInt(s) == trimmedToBigInt(Trim(s))

negated(b) == IF b.ok THEN Integer(~b.neg, b.digits) ELSE NotAnInteger

\* ethers getBigInt for a string: "" is refused, a leading "-" not followed
\* by another "-" negates BigInt of the rest, anything else is BigInt(string)
getBigInt(s) ==
    IF s = <<>> THEN NotAnInteger
    ELSE IF Head(s) = "-" /\ (Len(s) < 2 \/ s[2] # "-") THEN negated(StringToBigInt(Tail(s)))
    ELSE StringToBigInt(s)

BigIntToString(b) == IF b.neg THEN <<"-">> \o b.digits ELSE b.digits

EtherDecimals == 18

RECURSIVE StripZerosEnd(_)
StripZerosEnd(s) ==
    IF Len(s) > 1 /\ s[Len(s)] = "0" THEN StripZerosEnd(SubSeq(s, 1, Len(s) - 1)) ELSE s

\* at least one digit before the 18 decimals
padDigits(digits) ==
    IF Len(digits) <= EtherDecimals
    THEN Fill("0", EtherDecimals + 1 - Len(digits)) \o digits
    ELSE digits

\* the point placed 18 digits from the right, the zeros ending the fraction
\* dropped but for one digit
placePoint(padded) ==
    SubSeq(padded, 1, Len(padded) - EtherDecimals) \o <<".">>
        \o StripZerosEnd(SubSeq(padded, Len(padded) - EtherDecimals + 1, Len(padded)))

formatUnits(b) ==
    IF b.ok
    THEN [ok |-> TRUE,
          text |-> (IF b.neg THEN <<"-">> ELSE <<>>) \o placePoint(padDigits(b.digits))]
    ELSE [ok |-> FALSE, text |-> <<>>]

\* ethers formatEther: "ok" is false where it throws
formatEther(wei) == formatUnits(getBigInt(wei))

\* a numeral split into sign, whole part and fraction: at least one digit,
\* and digits past the 18th decimal must be zeros
partsToUnits(neg, whole, frac) ==
    IF /\ IsDigits(frac)
       /\ Len(whole) + Len(frac) > 0
       /\ \A i \in (EtherDecimals + 1)..Len(frac) : frac[i] = "0"
    THEN [ok |-> TRUE,
          text |-> BigIntToString(
                      Integer(neg, whole \o SubSeq(frac \o Fill("0", EtherDecimals),
                                                   1, EtherDecimals)))]
    ELSE [ok |-> FALSE, text |-> <<>>]

afterWhole(neg, whole, rest) ==
    partsToUnits(neg, whole, IF rest # <<>> /\ Head(rest) = "." THEN Tail(rest) ELSE rest)

splitWhole(neg, u, nWhole) ==
    afterWhole(neg, SubSeq(u, 1, nWhole), SubSeq(u, nWhole + 1, Len(u)))

parseUnits(neg, u) == splitWhole(neg, u, LeadingIn(u, DecClass))

\* ethers parseEther: the input must match /^(-?)([0-9]*)\.?([0-9]*)$/ with
\* at least one digit, and digits past the 18th decimal must be zeros;
\* "ok" is false where it throws, "text" is the result's toString()
parseEther(ether) ==
    IF ether # <<>> /\ Head(ether) = "-" THEN parseUnits(TRUE, Tail(ether))
    ELSE parseUnits(FALSE, ether)

\* parseFloat, as far as validateForm looks at it: whether the result is NaN
\* and whether it is below zero.  After leading white space and a sign the
\* longest decimal literal is read: digits with an optional fraction, or a
\* fraction alone (an exponent cannot change either answer for numerals the
\* double range holds; "Infinity" is a number too).
parseFloat(s) ==
    LET t      == SkipWhite(s)
        neg    == t # <<>> /\ Head(t) = "-"
        u      == IF t # <<>> /\ Head(t) \in {"-", "+"} THEN Tail(t) ELSE t
        nWhole == LeadingIn(u, DecClass)
        rest   == SubSeq(u, nWhole + 1, Len(u))
        nFrac  == IF rest # <<>> /\ Head(rest) = "."
                  THEN LeadingIn(Tail(rest), DecClass) ELSE 0
        mant   == SubSeq(u, 1, nWhole) \o SubSeq(rest, 2, 1 + nFrac)
        inf    == StartsWith(u, <<"I", "n", "f", "i", "n", "i", "t", "y">>)
    IN  [nan |-> ~inf /\ nWhole + nFrac = 0,
         negative |-> neg /\ (inf \/ \E i \in 1..Len(mant) : mant[i] # "0")]

\* a decimal numeral divided by 2^16: <<quotient digits, remainder>>
RECURSIVE DivideFrom(_, _, _)
DivideFrom(digits, carry, acc) ==
    IF digits = <<>> THEN <<StripZeros(acc), carry>>
    ELSE LET v == carry * 10 + DigitValue(Head(digits), 10)
         IN  DivideFrom(Tail(digits), v % 65536, acc \o <<DecChars[(v \div 65536) + 1]>>)

\* the 16 binary digits of a number below 2^16, most significant first
WordToBits(n) == [i \in 1..16 |-> (n \div 2 ^ (16 - i)) % 2]

\* the binary digits of a decimal numeral, most significant first, sixteen
\* at a time (zeros may lead them); zero has none
RECURSIVE DecimalToBits(_)
DecimalToBits(digits) ==
    IF StripZeros(digits) = <<"0">> THEN <<>>
    ELSE LET h == DivideFrom(digits, 0, <<>>)
         IN  DecimalToBits(h[1]) \o WordToBits(h[2])

RECURSIVE HexToBits(_)
HexToBits(h) ==
    IF h = <<>> THEN <<>>
    ELSE LET v == DigitValue(Head(h), 16)
         IN  <<v \div 8, (v \div 4) % 2, (v \div 2) % 2, v % 2>> \o HexToBits(Tail(h))

RECURSIVE StripZeroBits(_)
StripZeroBits(b) == IF b # <<>> /\ Head(b) = 0 THEN StripZeroBits(Tail(b)) ELSE b

\* a binary numeral plus one
RECURSIVE IncrementBits(_)
IncrementBits(b) ==
    IF b = <<>> THEN <<1>>
    ELSE IF b[Len(b)] = 0 THEN SubSeq(b, 1, Len(b) - 1) \o <<1>>
    ELSE IncrementBits(SubSeq(b, 1, Len(b) - 1)) \o <<0>>

DoubleMantissaBits == 53

\* the nearest IEEE double of a non-negative integer given in binary, ties
\* to even, again in binary
RoundToDouble(b) ==
    IF Len(b) <= DoubleMantissaBits THEN b
    ELSE LET top  == SubSeq(b, 1, DoubleMantissaBits)
             rest == SubSeq(b, DoubleMantissaBits + 1, Len(b))
             more == \E i \in 2..Len(rest) : rest[i] = 1
             up   == rest[1] = 1 /\ (more \/ top[DoubleMantissaBits] = 1)
         IN  (IF up THEN IncrementBits(top) ELSE top) \o [i \in 1..Len(rest) |-> 0]

RECURSIVE BitsToHex(_)
BitsToHex(b) ==
    IF b = <<>> THEN <<>>
    ELSE IF Len(b) % 4 # 0 THEN BitsToHex(<<0>> \o b)
    ELSE <<HexLowerChars[8 * b[1] + 4 * b[2] + 2 * b[3] + b[4] + 1]>>
             \o BitsToHex(SubSeq(b, 5, Len(b)))

\* parseInt(s).toString(16) for numerals of any size: parseInt reads an
\* optional sign, an optional 0x prefix and the leading digits, and yields
\* the nearest double
parseIntToHex(s) ==
    LET t    == SkipWhite(s)
        neg  == t # <<>> /\ Head(t) = "-"
        u    == IF t # <<>> /\ Head(t) \in {"-", "+"} THEN Tail(t) ELSE t
        hexp == StartsWith(u, <<"0", "x">>) \/ StartsWith(u, <<"0", "X">>)
        v    == IF hexp THEN SubSeq(u, 3, Len(u)) ELSE u
        run  == SubSeq(v, 1, LeadingIn(v, IF hexp THEN HexClass ELSE DecClass))
        bits == RoundToDouble(StripZeroBits(
                    IF hexp THEN HexToBits(run) ELSE DecimalToBits(run)))
    IN  IF run = <<>> THEN <<"N", "a", "N">>
        ELSE IF bits = <<>> THEN <<"0">>
        ELSE (IF neg THEN <<"-">> ELSE <<>>) \o BitsToHex(bits)

-----------------------------------------------------------------------------
(* The transaction form, TransactionForm.tsx:14-205: its state and its     *)
(* handlers.  The currency symbol shown in messages stays at its initial   *)
(* value "ETH"; no provider is attached here.                              *)

NoErrors == [to |-> "", data |-> "", value |-> ""]
NoTransaction == [to |-> <<>>, data |-> <<>>, hasValue |-> FALSE, value |-> <<>>]
NoCall == [called |-> FALSE, transaction |-> NoTransaction]
Call(transaction) == [called |-> TRUE, transaction |-> transaction]

\* what the user may type into the fields
DaiAddress == <<"0", "x", "6", "B", "1", "7", "5", "4", "7", "4", "E", "8", "9", "0", "9", "4", "C", "4", "4", "D", "a", "9", "8", "b", "9", "5", "4", "E", "e", "d", "e", "A", "C", "4", "9", "5", "2", "7", "1", "d", "0", "F">>
DaiAddressCut == <<"0", "x", "6", "B", "1", "7", "5", "4", "7", "4", "E", "8", "9", "0", "9", "4", "C", "4", "4", "D", "a", "9", "8", "b", "9", "5", "4", "E", "e", "d", "e", "A", "C", "4", "9", "5", "2", "7", "1", "d", "0">>
AddressInputs ==
    {<<>>, DaiAddress, DaiAddressCut, DaiAddress \o <<"0">>,
     [DaiAddress EXCEPT ![Len(DaiAddress)] = "g"]}
CalldataInputs ==
    {<<>>, <<"0", "x">>, <<"0", "x", "a", "9", "0", "5", "9", "c", "b", "b">>, <<"0", "x", "a", "b", "c">>, <<"0", "x", "z", "z">>,
     <<"a", "9", "0", "5", "9", "c", "b", "b">>}
\* 2^53 + 1, which no double holds, as a count of wei and as ether
OddWei == <<"9", "0", "0", "7", "1", "9", "9", "2", "5", "4", "7", "4", "0", "9", "9", "3">>
OddEther == <<"0", ".", "0", "0", "9", "0", "0", "7", "1", "9", "9", "2", "5", "4", "7", "4", "0", "9", "9", "3">>
ValueInputs ==
    {<<>>, <<"1", ".", "0">>, <<"1", ".", "5">>, <<"-", "1">>, <<".">>,
     <<"a", "b", "c">>, <<"5">>, <<"-", "5">>, OddWei, OddEther}

validateFormMutant(fd, unit, eth) ==
    [to |-> IF fd.to = <<>> THEN "Contract address is required" ELSE "",
     data |-> IF fd.data = <<>> THEN "Calldata is required" ELSE "",
     value |-> ""]

\* validateForm, TransactionForm.tsx:94-133: the messages it records
validateForm(fd, unit, eth) ==
    [to |-> IF fd.to = <<>> THEN "Contract address is required"
            ELSE IF ~isValidAddress(fd.to) THEN "Invalid Ethereum address format"
            ELSE "",
     data |-> IF fd.data = <<>> THEN "Calldata is required"
              ELSE IF ~isValidCalldata(fd.data)
                   THEN "Invalid calldata format (must start with 0x and contain hex characters)"
              ELSE "",
     value |-> IF fd.value = <<>> THEN ""
               ELSE IF unit = "eth"
                    THEN IF parseFloat(eth).nan \/ parseFloat(eth).negative
                         THEN "Value must be a valid positive number" ELSE ""
               ELSE IF ~formatEther(fd.value).ok THEN "Invalid wei value" ELSE ""]

\* the transaction handed to onSubmit, TransactionForm.tsx:152-156
cleanTransaction(fd, finalValue) ==
    IF finalValue # <<>>
    THEN [to |-> fd.to, data |-> fd.data, hasValue |-> TRUE,
          value |-> <<"0", "x">> \o parseIntToHex(finalValue)]
    ELSE [to |-> fd.to, data |-> fd.data, hasValue |-> FALSE, value |-> <<>>]

\* handleInputChange, TransactionForm.tsx:163-170, on the form state
inputChanged(fd, errs, field, value) ==
    [formData |-> [fd EXCEPT ![field] = value],
     errors |-> IF errs[field] # "" THEN [errs EXCEPT ![field] = ""] ELSE errs]

\* the try/catch around parseEther in handleValueChange,
\* TransactionForm.tsx:180-186
weiOrEmpty(parsed) == IF parsed.ok THEN parsed.text ELSE <<>>

handleInputChange ==
    /\ \E field \in {"to", "data"} :
         \E value \in (IF field = "to" THEN AddressInputs ELSE CalldataInputs) :
             LET r == inputChanged(formData, errors, field, value)
             IN  formData' = r.formData /\ errors' = r.errors
    /\ handler' = "handleInputChange"
    /\ onSubmitCall' = NoCall
    /\ UNCHANGED <<ethValue, valueUnit, besidesForm>>

\* handleValueChange, TransactionForm.tsx:173-193
handleValueChange ==
    /\ \E inputValue \in ValueInputs :
         \E wei \in {IF valueUnit = "eth"
                     THEN IF inputValue # <<>> /\ inputValue # <<".">>
                          THEN weiOrEmpty(parseEther(inputValue))
                          ELSE <<>>
                     ELSE inputValue} :
             /\ ethValue' = IF valueUnit = "eth" THEN inputValue ELSE <<>>
             /\ formData' = inputChanged(formData, errors, "value", wei).formData
             /\ errors' = inputChanged(formData, errors, "value", wei).errors
    /\ handler' = "handleValueChange"
    /\ onSubmitCall' = NoCall
    /\ UNCHANGED <<valueUnit, besidesForm>>

weiToEthMutant(wei) == wei

\* weiToEth, TransactionForm.tsx:82-89
weiToEth(wei) == IF wei = <<>> THEN <<>> ELSE weiOrEmpty(formatEther(wei))

\* handleUnitChange, TransactionForm.tsx:196-205
handleUnitChange ==
    /\ \E newUnit \in {"wei", "eth"} :
         /\ valueUnit' = newUnit
         /\ ethValue' = IF newUnit = "eth" /\ formData.value # <<>>
                        THEN weiToEth(formData.value) ELSE <<>>
    /\ handler' = "handleUnitChange"
    /\ onSubmitCall' = NoCall
    /\ UNCHANGED <<formData, errors, besidesForm>>

\* handleSubmit, TransactionForm.tsx:136-160
handleSubmit ==
    /\ handler' = "handleSubmit"
    /\ \E newErrors \in {validateForm(formData, valueUnit, ethValue)} :
         IF newErrors # NoErrors
         THEN errors' = newErrors /\ onSubmitCall' = NoCall
         ELSE IF valueUnit = "eth" /\ ethValue # <<>>
              THEN \E parsed \in {parseEther(ethValue)} :
                       IF parsed.ok
                       THEN /\ errors' = newErrors
                            /\ onSubmitCall' = Call(cleanTransaction(formData, parsed.text))
                       ELSE /\ errors' = [newErrors EXCEPT !.value = "Invalid ETH value"]
                            /\ onSubmitCall' = NoCall
              ELSE /\ errors' = newErrors
                   /\ onSubmitCall' = Call(cleanTransaction(formData, formData.value))
    /\ UNCHANGED <<formData, ethValue, valueUnit, besidesForm>>

FormInit ==
    /\ formData = [to |-> <<>>, data |-> <<>>, value |-> <<>>]
    /\ errors = NoErrors
    /\ ethValue = <<>>
    /\ valueUnit = "eth"
    /\ handler = "none"
    /\ onSubmitCall = NoCall

FormNext ==
    \/ handleInputChange
    \/ handleValueChange
    \/ handleUnitChange
    \/ handleSubmit

-----------------------------------------------------------------------------
(* Chain lookups, wallet.ts:275-298 and 386-422.  An argument is null or a *)
(* string; NETWORKS is an object literal, so reading a key finds its own   *)
(* entries and, failing that, the members of Object.prototype.             *)

NullId == [null |-> TRUE, text |-> <<>>]
Id(text) == [null |-> FALSE, text |-> text]

StrConstructor == <<"c", "o", "n", "s", "t", "r", "u", "c", "t", "o", "r">>
StrProto == <<"_", "_", "p", "r", "o", "t", "o", "_", "_">>

\* members every object literal inherits, as far as the lookups read them:
\* the constructor function (whose name is "Object") and the prototype
ObjectPrototype ==
    [k \in {StrConstructor, StrProto} |->
        [chainId |-> Undefined, name |-> IF k = StrConstructor THEN "Object" ELSE Undefined,
         rpcUrl |-> Undefined, blockExplorer |-> Undefined, currencySymbol |-> Undefined]]

\* NETWORKS[key]
NetworksAt(key) ==
    IF key \in DOMAIN NETWORKS THEN [defined |-> TRUE, value |-> NETWORKS[key]]
    ELSE IF key \in DOMAIN ObjectPrototype THEN [defined |-> TRUE, value |-> ObjectPrototype[key]]
    ELSE [defined |-> FALSE, value |-> Undefined]

\* `!chainId`
falsyId(chainId) == chainId.null \/ chainId.text = <<>>

\* isChainSupported, wallet.ts:288-298
isChainSupported(chainId) ==
    IF falsyId(chainId) THEN FALSE
    ELSE NetworksAt(normalizeChainId(chainId.text)).defined

\* `found?.currencySymbol || 'ETH'`, wallet.ts:284
symbolOrDefault(found) ==
    IF found.defined /\ found.value.currencySymbol # Undefined
    THEN found.value.currencySymbol ELSE "ETH"

getCurrencySymbolMutant(chainId) ==
    IF falsyId(chainId) THEN "ETH" ELSE symbolOrDefault(NetworksAt(chainId.text))

\* getCurrencySymbol, wallet.ts:275-285
getCurrencySymbol(chainId) ==
    IF falsyId(chainId) THEN "ETH"
    ELSE symbolOrDefault(NetworksAt(normalizeChainId(chainId.text)))

\* `found?.name || `Chain ID: ${decimalChainId}``, wallet.ts:395
nameOrChainId(found, decimalChainId) ==
    IF found.defined /\ found.value.name # Undefined
    THEN <<found.value.name>> ELSE <<"Chain ID: ">> \o decimalChainId

\* the header's getNetworkName, wallet.ts:386-396
getNetworkName(chainId) ==
    IF falsyId(chainId) THEN <<"Unknown">>
    ELSE nameOrChainId(NetworksAt(normalizeChainId(chainId.text)),
                       normalizeChainId(chainId.text))

\* the switch over the decimal identifier, wallet.ts:411-421
iconOf(found, decimalChainId) ==
    IF ~found.defined THEN "link"
    ELSE IF decimalChainId = Str1 THEN "ethereumIcon"
    ELSE IF decimalChainId = Str56 THEN "bnbIcon"
    ELSE IF decimalChainId = Str8453 THEN "baseIcon"
    ELSE "questionMark"

\* the header's getNetworkIcon, wallet.ts:399-422
getNetworkIcon(chainId) ==
    IF falsyId(chainId) THEN "link"
    ELSE iconOf(NetworksAt(normalizeChainId(chainId.text)), normalizeChainId(chainId.text))

\* The arguments tried: null, the empty string, the registry keys, their
\* hex-prefixed forms, identifiers the registry does not hold, an upper-case
\* prefix, a prefix alone, and names that every object inherits.
LookupIds ==
    {NullId, Id(<<>>), Id(Str1), Id(Str56), Id(Str8453),
     Id(<<"0", "x", "1">>), Id(<<"0", "x", "3", "8">>), Id(<<"0", "x", "2", "1", "0", "5">>),
     Id(<<"9", "9", "9", "9", "9", "9">>), Id(<<"0", "x", "5">>), Id(<<"0", "X", "3", "8">>),
     Id(<<"0", "x">>), Id(StrConstructor), Id(StrProto)}

MaxLookups == 2

Looked(fn, chainId, result) == [fn |-> fn, chainId |-> chainId, result |-> result]

CallIsChainSupported ==
    /\ Len(lookups) < MaxLookups
    /\ \E chainId \in LookupIds :
         lookups' = Append(lookups, Looked("isChainSupported", chainId, isChainSupported(chainId)))
    /\ UNCHANGED besidesLookup

CallGetCurrencySymbol ==
    /\ Len(lookups) < MaxLookups
    /\ \E chainId \in LookupIds :
         lookups' = Append(lookups, Looked("getCurrencySymbol", chainId, getCurrencySymbol(chainId)))
    /\ UNCHANGED besidesLookup

CallGetNetworkName ==
    /\ Len(lookups) < MaxLookups
    /\ \E chainId \in LookupIds :
         lookups' = Append(lookups, Looked("getNetworkName", chainId, getNetworkName(chainId)))
    /\ UNCHANGED besidesLookup

CallGetNetworkIcon ==
    /\ Len(lookups) < MaxLookups
    /\ \E chainId \in LookupIds :
         lookups' = Append(lookups, Looked("getNetworkIcon", chainId, getNetworkIcon(chainId)))
    /\ UNCHANGED besidesLookup

LookupInit == lookups = <<>>

LookupNext ==
    \/ CallIsChainSupported
    \/ CallGetCurrencySymbol
    \/ CallGetNetworkName
    \/ CallGetNetworkIcon

-----------------------------------------------------------------------------
(* The application state, App.tsx (unnamed/part_001:9-120), and the        *)
(* provider notifications the header listens to, Header.tsx                *)
(* (wallet.ts:317-352).  One asynchronous handler waits at a time; the     *)
(* synchronous ones may run while it waits.                                *)

Disconnected ==
    [isConnected |-> FALSE, account |-> Null, chainId |-> NullId, provider |-> Null]
Connected(provider, account, chainId) ==
    [isConnected |-> TRUE, account |-> account, chainId |-> Id(chainId), provider |-> provider]

\* the states handleConnect and handleDisconnect hand to onWalletConnect,
\* wallet.ts:354-383
ConnectStates ==
    {Disconnected} \cup {Connected(p, "A1", c) : p \in Handles, c \in {Str1, Str56}}

\* what the provider notifies: chainChanged carries a hex-prefixed chain
\* identifier, accountsChanged the accounts now exposed
ChainNotifications ==
    {<<"0", "x", "1">>, <<"0", "x", "3", "8">>, <<"0", "x", "2", "1", "0", "5">>,
     <<"0", "x", "5">>}
AccountNotifications == {<<>>, <<"A2">>}

\* how the connectWallet call of autoConnect may settle (connectWallet itself
\* is modelled above), part_001:99
AutoConnectOutcomes ==
    {Fulfilled([provider |-> "R1", account |-> "A1", chainId |-> c]) :
        c \in {Str1, <<"5">>}}
    \cup {Rejected(NewError(NoProviderMessage))}

\* what handleTransactionSubmit is called with
SubmittedTransactions ==
    {[to |-> "0xTo", data |-> "0xa9059cbb", value |-> v] : v \in {Undefined, "0xde0b6b3a7640000"}}

\* the error state: null or a message
NoError == [null |-> TRUE, text |-> <<>>]
ErrorOf(text) == [null |-> FALSE, text |-> text]

NoAppCall ==
    [fn |-> "none", at |-> "idle", notified |-> <<>>, chainId |-> <<>>,
     state |-> Disconnected]
AppCallDone(fn) == [NoAppCall EXCEPT !.fn = fn, !.at = "done"]
Mounted == appCall.fn \notin {"none", "unmounted"}

\* `error || ''`, the message handed to Notification, part_001:198-202
MessageOf(error) == IF error.null THEN <<>> ELSE error.text

\* the dependencies of the effects of Header (wallet.ts:352) and of
\* Notification (part_002:27 and 33) in the render of the present state
RenderedDeps ==
    [walletState |-> walletState, isVisible |-> showNotification,
     message |-> MessageOf(appError), timeLeft |-> timeLeft]

\* the effects of the last render have run: React runs them after the commit
\* and before the next event is handled
EffectsSettled == effectDeps = RenderedDeps
AppIdle == appCall.at = "done" /\ EffectsSettled

\* the values of the useState hooks of App, part_001:9-19
AppState ==
    [walletState |-> walletState, isUnsupportedChain |-> isUnsupportedChain,
     isSubmitting |-> isSubmitting, error |-> appError,
     showNotification |-> showNotification]
SetAppState(app) ==
    /\ walletState' = app.walletState
    /\ isUnsupportedChain' = app.isUnsupportedChain
    /\ isSubmitting' = app.isSubmitting
    /\ appError' = app.error
    /\ showNotification' = app.showNotification
    /\ UNCHANGED effectVars

\* a synchronous handler that ran: it is the last one unless another waits
SyncCall(fn) == appCall' = IF appCall.at = "done" THEN AppCallDone(fn) ELSE appCall

handleWalletConnectMutant(app, state) ==
    [app EXCEPT !.walletState = state, !.error = NoError, !.showNotification = FALSE]

\* handleWalletConnect, part_001:21-33
handleWalletConnect(app, state) ==
    [app EXCEPT !.walletState = state,
                !.error = NoError,
                !.showNotification = FALSE,
                !.isUnsupportedChain =
                    IF state.isConnected /\ ~falsyId(state.chainId)
                    THEN ~isChainSupported(state.chainId) ELSE FALSE]

\* the header's connect and disconnect buttons, wallet.ts:354-383
WalletConnectChanged ==
    /\ Mounted
    /\ EffectsSettled
    /\ \E state \in ConnectStates : SetAppState(handleWalletConnect(AppState, state))
    /\ SyncCall("handleWalletConnect")
    /\ UNCHANGED <<walletVars, besidesApp>>

accountsChangedStateMutant(state, accounts) ==
    IF Len(accounts) = 0 THEN [state EXCEPT !.account = Null]
    ELSE [state EXCEPT !.account = accounts[1]]

\* the state handleAccountsChanged hands to onWalletConnect, wallet.ts:325-340
accountsChangedState(state, accounts) ==
    IF Len(accounts) = 0 THEN [state EXCEPT !.isConnected = FALSE, !.account = Null]
    ELSE [state EXCEPT !.account = accounts[1]]

\* handleAccountsChanged, registered while a provider is held
handleAccountsChanged ==
    /\ Mounted
    /\ EffectsSettled
    /\ walletState.provider # Null
    /\ \E accounts \in AccountNotifications :
         SetAppState(handleWalletConnect(AppState, accountsChangedState(walletState, accounts)))
    /\ SyncCall("handleAccountsChanged")
    /\ UNCHANGED <<walletVars, besidesApp>>

\* handleNotificationClose, part_001:91-94
handleNotificationClose ==
    /\ Mounted
    /\ EffectsSettled
    /\ showNotification
    /\ SetAppState([AppState EXCEPT !.showNotification = FALSE, !.error = NoError])
    /\ SyncCall("handleNotificationClose")
    /\ UNCHANGED <<walletVars, besidesApp>>

\* the state set by handleChainSelect, part_001:71-74 and 80-87
chainSet(app, state, chainId) ==
    [app EXCEPT !.walletState = [state EXCEPT !.chainId = Id(chainId)],
                !.isUnsupportedChain = ~isChainSupported(Id(chainId))]

\* handleChainSelect, part_001:62-89, up to the await of
\* switchNetworkAndUpdateState (wallet.ts:238-254, which calls switchNetwork)
\* or, without a connected provider, to its end
handleChainSelect(fn, notified, chainId) ==
    IF walletState.provider # Null /\ walletState.isConnected
    THEN /\ appCall' = [fn |-> fn, at |-> "switchNetworkAndUpdateState",
                        notified |-> notified, chainId |-> chainId,
                        state |-> walletState]
         /\ pc' = [fn |-> "switchNetwork", at |-> "wallet_switchEthereumChain"]
         /\ args' = [provider |-> walletState.provider, chainId |-> chainId]
         /\ locals' = LocalsOf(walletState.provider)
         /\ log' = <<Request("wallet_switchEthereumChain",
                             [chainId |-> hexChainIdParam(chainId)])>>
         /\ outcome' = Pending
         /\ UNCHANGED <<walletState, isUnsupportedChain, isSubmitting, appError,
                        showNotification, effectVars>>
    ELSE /\ appCall' = [fn |-> fn, at |-> "done", notified |-> notified,
                        chainId |-> chainId, state |-> walletState]
         /\ SetAppState(chainSet(AppState, walletState, chainId))
         /\ UNCHANGED <<pc, args, locals, log, outcome>>

\* a network picked in the header's selector, shown while connected,
\* wallet.ts:425-431 and 523-529
ChainSelected ==
    /\ AppIdle
    /\ walletState.isConnected
    /\ \E chainId \in DOMAIN NETWORKS : handleChainSelect("handleChainSelect", <<>>, chainId)
    /\ UNCHANGED <<window, cachedProvider, op, detectResult, besidesApp>>

\* handleChainChanged, wallet.ts:320-323, registered while a provider is held
handleChainChanged ==
    /\ AppIdle
    /\ walletState.provider # Null
    /\ \E chainId \in ChainNotifications :
         handleChainSelect("handleChainChanged", chainId, chainIdOfAnswer(chainId))
    /\ UNCHANGED <<window, cachedProvider, op, detectResult, besidesApp>>

chainSelectSettledMutant(app, call, settled) ==
    IF settled.state = "fulfilled" THEN chainSet(app, call.state, call.chainId)
    ELSE [app EXCEPT !.error = ErrorOf(<<"Failed to switch network">>),
                     !.showNotification = TRUE]

\* handleChainSelect after its await, part_001:65-77: the state captured at
\* the call, with the new chain, is set when switchNetwork resolved; a
\* rejection is caught and nothing is set
chainSelectSettled(app, call, settled) ==
    IF settled.state = "fulfilled" THEN chainSet(app, call.state, call.chainId)
    ELSE app

handleChainSelectResumed ==
    /\ appCall.at = "switchNetworkAndUpdateState"
    /\ EffectsSettled
    /\ pc = [fn |-> "switchNetwork", at |-> "settled"]
    /\ SetAppState(chainSelectSettled(AppState, appCall, outcome))
    /\ appCall' = [appCall EXCEPT !.at = "done"]
    /\ UNCHANGED <<walletVars, besidesApp>>

\* autoConnect, part_001:96-120, called once when the component mounts, up
\* to its await of connectWallet
autoConnect ==
    /\ appCall = NoAppCall
    /\ appCall' = [NoAppCall EXCEPT !.fn = "autoConnect", !.at = "connectWallet"]
    /\ UNCHANGED <<walletState, isUnsupportedChain, isSubmitting, appError,
                   showNotification, effectVars, walletVars, besidesApp>>

\* autoConnect after its await, part_001:99-116
autoConnectSettled(app, settled) ==
    IF settled.state = "fulfilled"
    THEN [app EXCEPT !.walletState = Connected(settled.value.provider,
                                               settled.value.account,
                                               settled.value.chainId),
                     !.isUnsupportedChain = ~isChainSupported(Id(settled.value.chainId))]
    ELSE app

autoConnectResumed ==
    /\ appCall.at = "connectWallet"
    /\ EffectsSettled
    /\ \E settled \in AutoConnectOutcomes :
         /\ SetAppState(autoConnectSettled(AppState, settled))
         /\ appCall' = [appCall EXCEPT !.at = "done",
                                       !.notified = <<settled.state>>]
    /\ UNCHANGED <<walletVars, besidesApp>>

NoWalletConnectedMessage == <<"No wallet connected">>

\* handleTransactionSubmit, part_001:35-60, up to its await of sendTransaction
\* or, without a provider, to its end
handleTransactionSubmit ==
    /\ AppIdle
    /\ \E transaction \in SubmittedTransactions :
         IF walletState.provider = Null
         THEN /\ SetAppState([AppState EXCEPT !.error = ErrorOf(NoWalletConnectedMessage),
                                              !.showNotification = TRUE])
              /\ appCall' = AppCallDone("handleTransactionSubmit")
              /\ UNCHANGED <<pc, args, locals, log, outcome>>
         ELSE /\ SetAppState([AppState EXCEPT !.isSubmitting = TRUE,
                                              !.error = NoError,
                                              !.showNotification = FALSE])
              /\ appCall' = [NoAppCall EXCEPT !.fn = "handleTransactionSubmit",
                                              !.at = "sendTransaction",
                                              !.state = walletState]
              /\ pc' = [fn |-> "sendTransaction", at |-> "eth_accounts"]
              /\ args' = [provider |-> walletState.provider, transaction |-> transaction]
              /\ locals' = LocalsOf(walletState.provider)
              /\ log' = <<Request("eth_accounts", NoParams)>>
              /\ outcome' = Pending
    /\ UNCHANGED <<window, cachedProvider, op, detectResult, besidesApp>>

submitSettledMutant(app, settled) ==
    IF settled.state = "fulfilled" /\ ~settled.value.success
    THEN [app EXCEPT !.error = ErrorOf(settled.value.error), !.showNotification = TRUE]
    ELSE [app EXCEPT !.isSubmitting = FALSE]

\* handleTransactionSubmit after its await, part_001:46-59
submitSettled(app, settled) ==
    IF settled.state = "fulfilled"
    THEN IF ~settled.value.success
         THEN [app EXCEPT !.error = ErrorOf(IF settled.value.hasError
                                                 /\ settled.value.error # <<>>
                                              THEN settled.value.error
                                              ELSE <<"Transaction failed">>),
                          !.showNotification = TRUE,
                          !.isSubmitting = FALSE]
         ELSE [app EXCEPT !.isSubmitting = FALSE]
    ELSE [app EXCEPT !.error = ErrorOf(IF settled.error.type = "Error"
                                       THEN settled.error.message
                                       ELSE <<"Unknown error occurred">>),
                     !.showNotification = TRUE,
                     !.isSubmitting = FALSE]

handleTransactionSubmitResumed ==
    /\ appCall.at = "sendTransaction"
    /\ EffectsSettled
    /\ pc = [fn |-> "sendTransaction", at |-> "settled"]
    /\ SetAppState(submitSettled(AppState, outcome))
    /\ appCall' = [appCall EXCEPT !.at = "done"]
    /\ UNCHANGED <<walletVars, besidesApp>>

\* a handler registered with provider.on: the event, the provider and the
\* connection state its closure holds, wallet.ts:320-344
Handler(event, state) == [event |-> event, provider |-> state.provider, closure |-> state]

\* provider.removeListener: the handler is taken out once, if it is there
RECURSIVE removeListener(_, _)
removeListener(registered, listener) ==
    IF registered = <<>> THEN <<>>
    ELSE IF Head(registered) = listener THEN Tail(registered)
    ELSE <<Head(registered)>> \o removeListener(Tail(registered), listener)

headerCleanupMutant(registered, state) == registered

\* the cleanup the effect of Header returned for the state it ran with,
\* wallet.ts:346-350; it returned none without a provider
headerCleanup(registered, state) ==
    IF state.provider # Null
    THEN removeListener(removeListener(registered, Handler("chainChanged", state)),
                        Handler("accountsChanged", state))
    ELSE registered

\* the effect of Header, wallet.ts:318-345
headerEffect(registered, state) ==
    IF state.provider # Null
    THEN registered \o <<Handler("chainChanged", state), Handler("accountsChanged", state)>>
    ELSE registered

Countdown == 10

\* the first effect of Notification runs again, part_002:27
CountdownDepsChanged(deps) ==
    deps.isVisible # showNotification \/ deps.message # MessageOf(appError)

\* it sets the interval, part_002:13-16
CountdownStarts(deps) ==
    CountdownDepsChanged(deps) /\ showNotification /\ MessageOf(appError) # <<>>

\* the second effect of Notification calls onClose, part_002:29-33: it runs
\* again when timeLeft or isVisible changed and reads the timeLeft of the
\* render, which the setTimeLeft(10) of the first effect has not reached yet
ClosesItself(deps) ==
    /\ deps.timeLeft # timeLeft \/ deps.isVisible # showNotification
    /\ timeLeft = 0
    /\ showNotification

\* the effects React runs after a commit: the cleanup and the effect of
\* Header when walletState changed (wallet.ts:318-352), the two effects of
\* Notification (part_002:12-33); onClose is handleNotificationClose
EffectsFlushed ==
    /\ Mounted
    /\ ~EffectsSettled
    /\ listeners' = IF effectDeps.walletState # walletState
                    THEN headerEffect(headerCleanup(listeners, effectDeps.walletState),
                                      walletState)
                    ELSE listeners
    /\ timer' = IF CountdownDepsChanged(effectDeps) THEN CountdownStarts(effectDeps)
                ELSE timer
    /\ timeLeft' = IF CountdownStarts(effectDeps) THEN Countdown ELSE timeLeft
    /\ elapsed' = IF CountdownStarts(effectDeps) THEN 0 ELSE elapsed
    /\ showNotification' = (showNotification /\ ~ClosesItself(effectDeps))
    /\ appError' = IF ClosesItself(effectDeps) THEN NoError ELSE appError
    /\ effectDeps' = RenderedDeps
    /\ UNCHANGED <<walletState, isUnsupportedChain, isSubmitting, appCall, walletVars,
                   besidesApp>>

\* the callback of the interval, part_002:16-23
NotificationTick ==
    /\ Mounted
    /\ EffectsSettled
    /\ timer
    /\ timeLeft' = IF timeLeft <= 1 THEN 0 ELSE timeLeft - 1
    /\ elapsed' = IF elapsed < Countdown THEN elapsed + 1 ELSE elapsed
    /\ UNCHANGED <<walletState, isUnsupportedChain, isSubmitting, appError,
                   showNotification, appCall, listeners, timer, effectDeps, walletVars,
                   besidesApp>>

\* the application is unmounted: the cleanups of the effects run,
\* wallet.ts:346-350 and part_002:25
Unmounted ==
    /\ Mounted
    /\ AppIdle
    /\ listeners' = headerCleanup(listeners, effectDeps.walletState)
    /\ timer' = FALSE
    /\ appCall' = [NoAppCall EXCEPT !.fn = "unmounted"]
    /\ UNCHANGED <<walletState, isUnsupportedChain, isSubmitting, appError,
                   showNotification, timeLeft, elapsed, effectDeps, walletVars,
                   besidesApp>>

AppInit ==
    /\ walletState = Disconnected
    /\ isUnsupportedChain = FALSE
    /\ isSubmitting = FALSE
    /\ appError = NoError
    /\ showNotification = FALSE
    /\ appCall = NoAppCall
    /\ listeners = <<>>
    /\ timeLeft = Countdown
    /\ timer = FALSE
    /\ elapsed = 0
    /\ effectDeps = [walletState |-> Disconnected, isVisible |-> FALSE,
                     message |-> <<>>, timeLeft |-> Countdown]

AppNext ==
    \/ autoConnect
    \/ autoConnectResumed
    \/ WalletConnectChanged
    \/ handleAccountsChanged
    \/ handleNotificationClose
    \/ ChainSelected
    \/ handleChainChanged
    \/ switchNetworkSwitched
    \/ switchNetworkSwitchRejected
    \/ switchNetworkAdded
    \/ switchNetworkAddRejected
    \/ handleChainSelectResumed
    \/ handleTransactionSubmit
    \/ sendTransactionAccounts
    \/ sendTransactionSent
    \/ sendTransactionRejected
    \/ handleTransactionSubmitResumed
    \/ EffectsFlushed
    \/ Unmounted

\* the notification with its countdown, and the submissions that show it
NotificationNext ==
    \/ autoConnect
    \/ autoConnectResumed
    \/ handleTransactionSubmit
    \/ sendTransactionAccounts
    \/ sendTransactionSent
    \/ sendTransactionRejected
    \/ handleTransactionSubmitResumed
    \/ handleNotificationClose
    \/ EffectsFlushed
    \/ NotificationTick

-----------------------------------------------------------------------------
(* The EIP-7702 check of the form, TransactionForm.tsx:209-244: an effect  *)
(* of the provider and userAddress props.  Each run of the effect has its  *)
(* own isMounted flag, which its cleanup clears.                           *)

NotRendered == [mounted |-> FALSE, provider |-> Undefined, userAddress |-> Undefined]
Rendered(provider, userAddress) ==
    [mounted |-> TRUE, provider |-> provider, userAddress |-> userAddress]

\* the props the form is rendered with; both are optional,
\* TransactionForm.tsx:10-11
FormPropsSets ==
    {Rendered(provider, userAddress) :
        provider \in Handles \cup {Undefined}, userAddress \in CodeAddresses \cup {Undefined}}

MaxChecks == 2
MaxRuns == 4

cleanedUpMutant(waiting) == waiting

\* the cleanup of the effect, TransactionForm.tsx:240-242: the flag of the
\* run it belongs to, the last one, is cleared
cleanedUp(waiting) ==
    [i \in DOMAIN waiting |->
        IF waiting[i].run = effectRun THEN [waiting[i] EXCEPT !.isMounted = FALSE]
        ELSE waiting[i]]

\* checkEIP7702Support up to its await, TransactionForm.tsx:212-217, or
\* through its else branch, 231-235; the form is mounted or its props change
checkEIP7702Support ==
    /\ effectRun < MaxRuns
    /\ \E props \in FormPropsSets \ {formProps} :
         /\ formProps' = props
         /\ IF props.provider # Undefined /\ props.userAddress # Undefined
            THEN /\ Len(checks) < MaxChecks
                 /\ checks' = Append(cleanedUp(checks),
                                     [provider |-> props.provider,
                                      userAddress |-> props.userAddress,
                                      isMounted |-> TRUE, run |-> effectRun + 1])
                 /\ isCheckingEIP7702' = TRUE
                 /\ isEIP7702User' = (formProps.mounted /\ isEIP7702User)
            ELSE /\ checks' = cleanedUp(checks)
                 /\ isCheckingEIP7702' = FALSE
                 /\ isEIP7702User' = FALSE
    /\ effectRun' = effectRun + 1
    /\ UNCHANGED <<lastSettled, besidesDetect>>

\* the form is unmounted: the cleanup runs
FormUnmounted ==
    /\ formProps.mounted
    /\ effectRun < MaxRuns
    /\ formProps' = NotRendered
    /\ checks' = cleanedUp(checks)
    /\ effectRun' = effectRun + 1
    /\ UNCHANGED <<isEIP7702User, isCheckingEIP7702, lastSettled, besidesDetect>>

\* how detectEIP7702User settles: with what it makes of the answer to
\* eth_getCode or of its rejection, eip7702.ts:4-33
DetectionOutcomes ==
    {detectEIP7702UserSettled(Fulfilled(hasCode(code))) : code \in CodeAnswers}
    \cup {detectEIP7702UserSettled(Fulfilled(FALSE))}

WithoutCheck(waiting, i) == SubSeq(waiting, 1, i - 1) \o SubSeq(waiting, i + 1, Len(waiting))

\* checkEIP7702Support after its await, TransactionForm.tsx:218-230
checkEIP7702SupportResumed ==
    /\ \E i \in DOMAIN checks, settled \in DetectionOutcomes :
         /\ IF checks[i].isMounted
            THEN /\ isEIP7702User' = (settled.state = "fulfilled" /\ settled.value)
                 /\ isCheckingEIP7702' = FALSE
            ELSE UNCHANGED <<isEIP7702User, isCheckingEIP7702>>
         /\ lastSettled' = [run |-> checks[i].run,
                            result |-> (settled.state = "fulfilled" /\ settled.value)]
         /\ checks' = WithoutCheck(checks, i)
    /\ UNCHANGED <<formProps, effectRun, besidesDetect>>

DetectInit ==
    /\ formProps = NotRendered
    /\ isEIP7702User = FALSE
    /\ isCheckingEIP7702 = FALSE
    /\ checks = <<>>
    /\ effectRun = 0
    /\ lastSettled = [run |-> 0, result |-> FALSE]

DetectNext ==
    \/ checkEIP7702Support
    \/ FormUnmounted
    \/ checkEIP7702SupportResumed

-----------------------------------------------------------------------------
(* The specifications: each runs one part of the program and leaves the    *)
(* variables of the others at rest.                                        *)

Init == WalletInit /\ ValidationUnused /\ FormInit /\ LookupInit /\ AppInit /\ DetectInit

Next == WalletNext

Spec == Init /\ [][Next]_vars

\* no provider is injected while the predicates or the form are exercised
NoWindow ==
    window = [defined |-> FALSE, throws |-> FALSE, rabby |-> Null,
              ethereum |-> Null, isRabby |-> FALSE]

InitValidation ==
    WalletInit /\ NoWindow /\ ValidationInit /\ FormInit /\ LookupInit /\ AppInit /\ DetectInit

SpecValidation == InitValidation /\ [][ValidationNext]_vars

InitForm ==
    WalletInit /\ NoWindow /\ ValidationUnused /\ FormInit /\ LookupInit /\ AppInit /\ DetectInit

SpecForm == InitForm /\ [][FormNext]_vars

InitLookup ==
    WalletInit /\ NoWindow /\ ValidationUnused /\ FormInit /\ LookupInit /\ AppInit /\ DetectInit

SpecLookup == InitLookup /\ [][LookupNext]_vars

InitApp ==
    WalletInit /\ NoWindow /\ ValidationUnused /\ FormInit /\ LookupInit /\ AppInit /\ DetectInit

SpecApp == InitApp /\ [][AppNext]_vars

InitNotification ==
    WalletInit /\ NoWindow /\ ValidationUnused /\ FormInit /\ LookupInit /\ AppInit /\ DetectInit

SpecNotification == InitNotification /\ [][NotificationNext]_vars

InitDetect ==
    WalletInit /\ NoWindow /\ ValidationUnused /\ FormInit /\ LookupInit /\ AppInit /\ DetectInit

SpecDetect == InitDetect /\ [][DetectNext]_vars

-----------------------------------------------------------------------------
(* Properties of the provider adapter.                                     *)

Settled(fn) == pc = [fn |-> fn, at |-> "settled"]
LastRequest == log[Len(log)]

\* a reply that carries no account: null or the empty list
RepliedNoAccounts(entry) ==
    entry.reply = "resolved" /\ (entry.value.null \/ entry.value.items = <<>>)

\* C1: sendTransaction never rejects.  Whatever the provider does
\* (eth_accounts rejected or answered with no account, eth_sendTransaction
\* rejected or resolved) the promise is fulfilled with a transaction result;
\* after a rejection carrying a message the result is exactly
\* {hash: "", success: false, error: that message} (a rejection that carries
\* none gives the same shape with a non-empty fallback text), and after a
\* resolved send it is {hash: the provider's value, success: true} with no
\* error field.
C1_SendNeverRejects ==
    Settled("sendTransaction") =>
        /\ outcome.state = "fulfilled"
        /\ LastRequest.reply = "rejected" =>
             /\ outcome.value.hash = ""
             /\ outcome.value.success = FALSE
             /\ outcome.value.hasError
             /\ outcome.value.error # <<>>
             /\ LastRequest.value.hasMessage => outcome.value.error = LastRequest.value.message
        /\ (LastRequest.method = "eth_accounts" /\ LastRequest.reply = "resolved") =>
             /\ RepliedNoAccounts(LastRequest)
             /\ outcome.value.hash = ""
             /\ outcome.value.success = FALSE
             /\ outcome.value.hasError
        /\ (LastRequest.method = "eth_sendTransaction" /\ LastRequest.reply = "resolved") =>
             outcome.value = [hash |-> LastRequest.value, success |-> TRUE,
                              hasError |-> FALSE, error |-> <<>>]

\* a send rejected with a user-denial message has settled as a failure result
C1_Witness ==
    /\ Settled("sendTransaction")
    /\ LastRequest.method = "eth_sendTransaction"
    /\ LastRequest.reply = "rejected"
    /\ LastRequest.value.message = <<"User rejected the request.">>
    /\ outcome = Fulfilled([hash |-> "", success |-> FALSE, hasError |-> TRUE,
                            error |-> <<"User rejected the request.">>])

\* C22: within one sendTransaction call the provider sees eth_accounts
\* first and eth_sendTransaction at most once afterwards, and only if
\* eth_accounts returned at least one account; the payload has from = the
\* first account, to and data equal to the request's fields, and a value
\* field present if and only if the request's value is non-empty.  With
\* zero accounts no send is issued and the result is a failure with message
\* 'No accounts connected'.
C22_SendOrder ==
    pc.fn = "sendTransaction" =>
        /\ Len(log) \in {1, 2}
        /\ log[1].method = "eth_accounts"
        /\ Len(log) = 2 =>
             /\ log[2].method = "eth_sendTransaction"
             /\ log[1].reply = "resolved"
             /\ ~log[1].value.null
             /\ Len(log[1].value.items) >= 1
             /\ log[2].params.from = log[1].value.items[1]
             /\ log[2].params.to = args.transaction.to
             /\ log[2].params.data = args.transaction.data
             /\ log[2].params.hasValue <=> args.transaction.value \notin {Undefined, ""}
             /\ log[2].params.hasValue => log[2].params.value = args.transaction.value
        /\ (log[1].reply = "resolved" /\ ~RepliedNoAccounts(log[1])) => Len(log) = 2
        /\ RepliedNoAccounts(log[1]) =>
             /\ Len(log) = 1
             /\ outcome = Fulfilled([hash |-> "", success |-> FALSE, hasError |-> TRUE,
                                     error |-> <<"No accounts connected">>])

\* a request with an empty value was sent without a value field, from the
\* first of two accounts
C22_Witness ==
    /\ Settled("sendTransaction")
    /\ args.transaction.value = ""
    /\ Len(log) = 2
    /\ log[1].value.items = <<"A2", "A1">>
    /\ log[2].params.from = "A2"
    /\ ~log[2].params.hasValue
    /\ log[2].reply = "resolved"

\* C5: connectWallet asks eth_accounts before anything else, asks
\* eth_requestAccounts if and only if eth_accounts answered with no account,
\* and asks eth_chainId only after a list with at least one account came back.
C5_ConnectOrder ==
    (pc.fn = "connectWallet" /\ log # <<>>) =>
        /\ log[1].method = "eth_accounts"
        /\ \A i \in 1..Len(log) :
             /\ log[i].method = "eth_accounts" => i = 1
             /\ log[i].method = "eth_requestAccounts" =>
                  i = 2 /\ RepliedNoAccounts(log[1])
             /\ log[i].method = "eth_chainId" =>
                  /\ i > 1
                  /\ log[i - 1].method \in {"eth_accounts", "eth_requestAccounts"}
                  /\ log[i - 1].reply = "resolved"
                  /\ ~log[i - 1].value.null
                  /\ Len(log[i - 1].value.items) >= 1
        /\ RepliedNoAccounts(log[1]) =>
             Len(log) >= 2 /\ log[2].method = "eth_requestAccounts"

\* the interactive request was issued after an empty answer, accounts were
\* granted and the chain query followed
C5_Witness ==
    /\ pc.fn = "connectWallet"
    /\ Len(log) = 3
    /\ RepliedNoAccounts(log[1])
    /\ log[2].method = "eth_requestAccounts"
    /\ log[3].method = "eth_chainId"

\* C6 (as claimed): with no provider detected connectWallet fails with the
\* no-provider error and issues no request; when authorization yields no
\* account it fails with the no-accounts error itself, not with the generic
\* "Failed to connect" wrapper used for provider failures.
C6_ConnectErrors ==
    Settled("connectWallet") =>
        /\ locals.provider = Null =>
             log = <<>> /\ outcome = Rejected(NewError(NoProviderMessage))
        /\ (log # <<>> /\ LastRequest.method = "eth_requestAccounts"
                /\ RepliedNoAccounts(LastRequest)) =>
             outcome = Rejected(NewError(NoAccountsMessage))

\* C7 (as claimed): the chain identifier returned is normalizeChainId of the
\* provider's answer: a hex-prefixed answer in decimal, any other answer as is.
C7_ChainIdAsNormalized ==
    (Settled("connectWallet") /\ outcome.state = "fulfilled") =>
        outcome.value.chainId = normalizeChainId(LastRequest.value)

\* the answer without its 0x or 0X prefix, if it has one
HexBody(answer) ==
    IF StartsWith(answer, <<"0", "x">>) \/ StartsWith(answer, <<"0", "X">>)
    THEN SubSeq(answer, 3, Len(answer))
    ELSE answer

\* the account list the call obtained: the last account answer in its log
ObtainedAccounts ==
    LET i == CHOOSE i \in 1..Len(log) :
                 /\ log[i].method \in {"eth_accounts", "eth_requestAccounts"}
                 /\ \A j \in (i + 1)..Len(log) :
                        log[j].method \notin {"eth_accounts", "eth_requestAccounts"}
    IN  log[i].value.items

\* C7 (amended): on success connectWallet returns the detected provider
\* handle, the first account of the obtained list, and the provider's answer
\* read as a base-16 numeral and written in decimal whether or not it carries
\* the hex prefix: a prefixed answer gives its decimal form, an unprefixed
\* answer is read base-16 all the same ("56" gives "86"), never returned as is.
C7_ConnectResult ==
    (Settled("connectWallet") /\ outcome.state = "fulfilled") =>
        /\ outcome.value.provider = locals.provider
        /\ outcome.value.provider \in Handles
        /\ outcome.value.account = ObtainedAccounts[1]
        /\ outcome.value.chainId = normalizeChainId(<<"0", "x">> \o HexBody(LastRequest.value))

\* a successful connect whose chain answer came without the hex prefix
C7_Witness ==
    /\ Settled("connectWallet")
    /\ outcome.state = "fulfilled"
    /\ LastRequest.value = Str56
    /\ outcome.value.chainId = <<"8", "6">>
    /\ outcome.value.account = "A2"

\* what the environment offers to a detection that inspects it
Offered(w) ==
    IF ~w.defined \/ w.throws THEN Null
    ELSE IF w.rabby # Null THEN w.rabby
    ELSE IF w.ethereum # Null /\ w.isRabby THEN w.ethereum
    ELSE Null

\* C8: the cache is one slot that only clearWalletCache empties.  A held
\* handle stays in the slot whatever the environment becomes, and every
\* detection returns it; a detection that finds nothing leaves the slot
\* empty; a detection on an empty slot (initially or after a clear) inspects
\* the environment.
C8_SingleSlotCache ==
    [][ /\ (cachedProvider # Null /\ cachedProvider' # cachedProvider) =>
              (op' = "clear" /\ cachedProvider' = Null)
        /\ op' = "detect" => detectResult' = cachedProvider'
        /\ (op' = "detect" /\ cachedProvider # Null) => detectResult' = cachedProvider
        /\ (op' = "detect" /\ cachedProvider = Null /\ window' = window
                /\ <<cachedProvider, op, detectResult>>' # <<cachedProvider, op, detectResult>>) =>
              detectResult' = Offered(window)
      ]_vars

\* a detection returned the cached handle although the environment no longer
\* offers it
C8_Witness ==
    /\ op = "detect"
    /\ cachedProvider = "R1"
    /\ detectResult = "R1"
    /\ Offered(window) # "R1"

\* only MetaMask is injected: window.ethereum without the isRabby mark
MetaMaskOnly(w) ==
    w.defined /\ ~w.throws /\ w.rabby = Null /\ w.ethereum # Null /\ ~w.isRabby

\* C9 (as claimed): with MetaMask as the only injected provider, wallet
\* detection returns a provider, so that connectWallet can go on.
C9_MetaMaskDetected ==
    (op = "detect" /\ MetaMaskOnly(window)) => detectResult # Null

IsUnknownChain(entry) ==
    /\ entry.reply = "rejected"
    /\ entry.value.type \in {"Error", "object"}
    /\ entry.value.code = UnknownChainCode

\* C10 (as claimed): after a 4902 rejection of wallet_switchEthereumChain
\* for a chain the registry describes, switchNetwork requests
\* wallet_addEthereumChain from that metadata and, once that succeeds,
\* retries wallet_switchEthereumChain before resolving.
C10_AddThenRetry ==
    (Settled("switchNetwork") /\ IsUnknownChain(log[1]) /\ args.chainId \in DOMAIN NETWORKS) =>
        /\ Len(log) >= 2
        /\ log[2].method = "wallet_addEthereumChain"
        /\ log[2].reply = "resolved" =>
             Len(log) >= 3 /\ log[3].method = "wallet_switchEthereumChain"

\* C10 (amended): after a 4902 rejection of wallet_switchEthereumChain for a
\* chain identifier that is itself a key of the registry, switchNetwork
\* requests wallet_addEthereumChain built from that entry's metadata and
\* settles with the outcome of that request: it resolves as soon as the add
\* request succeeds and issues no second wallet_switchEthereumChain.
C10_AddNoRetry ==
    (pc.fn = "switchNetwork" /\ IsUnknownChain(log[1]) /\ args.chainId \in DOMAIN NETWORKS) =>
        /\ Len(log) = 2
        /\ log[2].method = "wallet_addEthereumChain"
        /\ log[2].params.chainId = log[1].params.chainId
        /\ log[2].params.chainName = NETWORKS[args.chainId].name
        /\ log[2].params.nativeCurrency.symbol = NETWORKS[args.chainId].currencySymbol
        /\ log[2].params.blockExplorerUrls = <<NETWORKS[args.chainId].blockExplorer>>
        /\ log[2].reply = "pending" <=> ~NoCallInFlight
        /\ log[2].reply = "resolved" => outcome = Fulfilled(Undefined)
        /\ log[2].reply = "rejected" => outcome = Rejected(log[2].value)

\* the add request succeeded for Base and the call resolved after two requests
C10_Witness ==
    /\ Settled("switchNetwork")
    /\ args.chainId = Str8453
    /\ IsUnknownChain(log[1])
    /\ Len(log) = 2
    /\ log[2].method = "wallet_addEthereumChain"
    /\ log[2].reply = "resolved"
    /\ outcome.state = "fulfilled"

\* C11: every failure of switchNetwork other than the unknown-chain code
\* reaches the caller.  A wallet_switchEthereumChain rejection that does not
\* carry code 4902 makes switchNetwork reject without any
\* wallet_addEthereumChain request, with that same error (a rejection with
\* undefined, whose code cannot be read, rejects with the TypeError of that
\* read); a rejected wallet_addEthereumChain makes switchNetwork reject with
\* that request's error.
C11_OtherFailuresPropagate ==
    Settled("switchNetwork") =>
        /\ (log[1].reply = "rejected" /\ ~IsUnknownChain(log[1])) =>
             /\ Len(log) = 1
             /\ outcome.state = "rejected"
             /\ log[1].value.type # "undefined" => outcome.error = log[1].value
        /\ (Len(log) = 2 /\ log[2].reply = "rejected") =>
             /\ log[2].method = "wallet_addEthereumChain"
             /\ outcome = Rejected(log[2].value)

\* the user refused the switch and switchNetwork rejected with that refusal
C11_Witness ==
    /\ Settled("switchNetwork")
    /\ Len(log) = 1
    /\ log[1].reply = "rejected"
    /\ log[1].value.type = "Error"
    /\ log[1].value.message = <<"User rejected the request.">>
    /\ outcome = Rejected(log[1].value)

\* C12: checkAddressHasCode issues exactly one request, eth_getCode for the
\* address at block 'latest', and never rejects: it resolves true if and
\* only if that request succeeded with an answer other than '0x' and '0x0',
\* and false after any failure of the request.  detectEIP7702User settles
\* with the same value for the same provider behaviour.
C12_HasCodeResult ==
    pc.fn \in {"checkAddressHasCode", "detectEIP7702User"} =>
        /\ Len(log) = 1
        /\ log[1].method = "eth_getCode"
        /\ log[1].params = [address |-> args.address, block |-> "latest"]
        /\ pc.at = "settled" =>
             /\ outcome.state = "fulfilled"
             /\ outcome.value \in BOOLEAN
             /\ outcome.value <=>
                  (log[1].reply = "resolved" /\ log[1].value \notin {"0x", "0x0"})

\* detectEIP7702User resolved false for the answer '0x0'
C12_Witness ==
    /\ Settled("detectEIP7702User")
    /\ log[1].reply = "resolved"
    /\ log[1].value = "0x0"
    /\ outcome = Fulfilled(FALSE)

-----------------------------------------------------------------------------
(* Properties of the validation predicates.                                *)

\* "0x" followed by hexadecimal characters of either case
IsPrefixedHex(s) ==
    /\ Len(s) >= 2
    /\ s[1] = "0"
    /\ s[2] = "x"
    /\ \A i \in 3..Len(s) : s[i] \in HexClass

\* C3: isValidAddress(s) is true if and only if s is "0x" followed by
\* exactly 40 hexadecimal characters of either case; every other string
\* (wrong length, missing prefix, a character that is no hexadecimal digit,
\* a trailing line break) gives false, and the test gives an answer for
\* every string.
C3_AddressIff ==
    "isValidAddress" \in called =>
        /\ addressOk \in BOOLEAN
        /\ addressOk <=> (IsPrefixedHex(input) /\ Len(input) = 2 + AddressHexLength)

\* an address of 40 upper-case hexadecimal characters was accepted
C3_Witness ==
    /\ "isValidAddress" \in called
    /\ input = <<"0", "x">> \o Fill("F", AddressHexLength)
    /\ addressOk

\* C4: isValidCalldata(s) is true if and only if s is "0x" followed by zero
\* or more hexadecimal characters, whatever their number (odd, or none at
\* all); a string without the prefix or with another character after it
\* gives false, and the test gives an answer for every string.
C4_CalldataIff ==
    "isValidCalldata" \in called =>
        /\ calldataOk \in BOOLEAN
        /\ calldataOk <=> IsPrefixedHex(input)

\* calldata with an odd number of upper-case hexadecimal characters was accepted
C4_Witness ==
    /\ "isValidCalldata" \in called
    /\ input = <<"0", "x", "F">>
    /\ calldataOk

-----------------------------------------------------------------------------
(* Properties of the transaction form.                                     *)

\* C2: validation errors never reach the provider.  After any sequence of
\* edits and unit changes, a submit calls onSubmit only if the destination
\* satisfies isValidAddress and the calldata satisfies isValidCalldata, and
\* then with that destination and calldata; otherwise onSubmit is not called
\* and every field that fails its predicate has a message recorded.
C2_InvalidNeverSubmitted ==
    handler = "handleSubmit" =>
        /\ onSubmitCall.called =>
             /\ isValidAddress(formData.to)
             /\ isValidCalldata(formData.data)
             /\ onSubmitCall.transaction.to = formData.to
             /\ onSubmitCall.transaction.data = formData.data
        /\ ~isValidAddress(formData.to) => (~onSubmitCall.called /\ errors.to # "")
        /\ ~isValidCalldata(formData.data) => (~onSubmitCall.called /\ errors.data # "")

\* a submit with an address one character short and well-formed calldata was
\* stopped with the address message
C2_Witness ==
    /\ handler = "handleSubmit"
    /\ formData.to = DaiAddressCut
    /\ isValidCalldata(formData.data)
    /\ ~onSubmitCall.called
    /\ errors.to = "Invalid Ethereum address format"
    /\ errors.data = ""

\* C19 (as claimed): the destination
\* "0x6B175474E89094C44Da98b954EedeAC495271d0F" is rejected by
\* isValidAddress, so a submit with that destination is stopped before
\* onSubmit is called.
C19_DaiAddressRejected ==
    (handler = "handleSubmit" /\ formData.to = DaiAddress) =>
        /\ ~isValidAddress(formData.to)
        /\ errors.to # ""
        /\ ~onSubmitCall.called

\* C19 (amended): that destination is "0x" followed by exactly 40
\* hexadecimal characters and isValidAddress accepts it: a submit records
\* no destination error for it and calls onSubmit unless the calldata or
\* the value is refused.  The same string with one more character (41)
\* is rejected, and the submit is stopped before onSubmit is called.
C19_DaiAddressAccepted ==
    handler = "handleSubmit" =>
        /\ formData.to = DaiAddress =>
             /\ Len(formData.to) = 2 + AddressHexLength
             /\ errors.to = ""
             /\ (errors.data = "" /\ errors.value = "") => onSubmitCall.called
        /\ formData.to = DaiAddress \o <<"0">> =>
             /\ errors.to = "Invalid Ethereum address format"
             /\ ~onSubmitCall.called

\* a submit with that destination and well-formed calldata called onSubmit
C19_Witness ==
    /\ handler = "handleSubmit"
    /\ formData.to = DaiAddress
    /\ onSubmitCall.called
    /\ onSubmitCall.transaction.to = DaiAddress

\* a decimal numeral without sign: digits, an optional point, digits, and
\* at least one digit
WholeOf(s) == SubSeq(s, 1, LeadingIn(s, DecClass))
PastWhole(s) == SubSeq(s, LeadingIn(s, DecClass) + 1, Len(s))
FractionOf(s) ==
    IF PastWhole(s) # <<>> /\ Head(PastWhole(s)) = "." THEN Tail(PastWhole(s))
    ELSE PastWhole(s)
IsAmount(s) == IsDigits(FractionOf(s)) /\ Len(WholeOf(s)) + Len(FractionOf(s)) > 0

\* the canonical numeral of an amount: no zeros leading the whole part or
\* ending the fraction, and at least one digit on each side of the point
Canonical(s) ==
    StripZeros(IF WholeOf(s) = <<>> THEN <<"0">> ELSE WholeOf(s)) \o <<".">>
        \o StripZerosEnd(IF FractionOf(s) = <<>> THEN <<"0">> ELSE FractionOf(s))

\* C16: unit conversion round-trips.  While the display unit is selected
\* and the amount shown is a non-negative decimal numeral x with at most 18
\* fractional digits, the base-unit value the form holds for it converts
\* back (weiToEth) to x up to canonical trailing-zero trimming, and
\* handleUnitChange to the display unit shows such a numeral for it.
C16_RoundTrip ==
    [][(/\ valueUnit = "eth"
        /\ IsAmount(ethValue)
        /\ Len(FractionOf(ethValue)) <= EtherDecimals)
          => /\ Canonical(weiToEth(formData.value)) = Canonical(ethValue)
             /\ (handler' = "handleUnitChange" /\ valueUnit' = "eth")
                  => /\ IsAmount(ethValue')
                     /\ Canonical(ethValue') = Canonical(ethValue)]_vars

\* 0.009007199254740993 ether was entered, and after handleUnitChange the
\* display shows it again
C16_Witness ==
    /\ handler = "handleUnitChange"
    /\ valueUnit = "eth"
    /\ formData.value = OddWei
    /\ ethValue = OddEther

\* the value as entered: the display amount in "eth" mode, the count of
\* base units in "wei" mode
EnteredValue == IF valueUnit = "eth" THEN ethValue ELSE formData.value

\* a valid non-negative numeral for the unit mode: a decimal amount for the
\* display unit, a string of digits for the base unit
IsValidEntry(unit, s) == IF unit = "eth" THEN IsAmount(s) ELSE s # <<>> /\ IsDigits(s)

\* C17 (as claimed): a value that is not a valid non-negative numeral
\* never produces a submission.  In either unit mode, when the entered
\* value is negative, non-numeric or otherwise malformed, handleSubmit
\* records a value error and does not call onSubmit.
C17_BadValueNeverSubmitted ==
    (/\ handler = "handleSubmit"
     /\ EnteredValue # <<>>
     /\ ~IsValidEntry(valueUnit, EnteredValue))
        => ~onSubmitCall.called

\* the hexadecimal numeral of a non-negative integer given in decimal
ExactHex(digits) ==
    IF StripZeros(digits) = <<"0">> THEN <<"0">>
    ELSE BitsToHex(StripZeroBits(DecimalToBits(digits)))

\* the count of base units a valid entry stands for, in decimal: the
\* display amount with its point moved 18 places, or the digits entered
IntendedUnits(unit, s) ==
    IF unit = "eth"
    THEN StripZeros(WholeOf(s)
            \o SubSeq(FractionOf(s) \o Fill("0", EtherDecimals), 1, EtherDecimals))
    ELSE StripZeros(s)

\* C18 (as claimed): the value placed in the submitted transaction request
\* denotes exactly the intended base-unit integer: a display amount scaled
\* by 10^18 ("1.0" gives 1000000000000000000), a base-unit entry as
\* entered, for every valid amount and not only for those below 2^53.
C18_SubmittedValueExact ==
    (/\ handler = "handleSubmit"
     /\ onSubmitCall.called
     /\ EnteredValue # <<>>
     /\ IsValidEntry(valueUnit, EnteredValue)
     /\ valueUnit = "eth" => Len(FractionOf(EnteredValue)) <= EtherDecimals)
        => /\ onSubmitCall.transaction.hasValue
           /\ onSubmitCall.transaction.value
                = <<"0", "x">> \o ExactHex(IntendedUnits(valueUnit, EnteredValue))

-----------------------------------------------------------------------------
(* Properties of the chain lookups.                                        *)

\* the entries of the chain registry are those of the NETWORKS literal
IsRegistered(decimalChainId) == decimalChainId \in {Str1, Str56, Str8453}

\* C13 (as claimed): isChainSupported(id) is true if and only if the
\* normalized form of id is the identifier of a registry entry: true for
\* "1", "56", "8453" and their hex-prefixed forms, false for null, for
\* "999999" and for every other string that is no registry identifier.
C13_SupportedIffRegistered ==
    \A i \in 1..Len(lookups) :
        lookups[i].fn = "isChainSupported" =>
            (lookups[i].result <=>
                (~lookups[i].chainId.null
                    /\ IsRegistered(normalizeChainId(lookups[i].chainId.text))))

\* C14: getCurrencySymbol(id) gives the registry's currency symbol for the
\* normalized form of id ("56" and "0x38" both give "BNB") and "ETH" when
\* id is null, empty, or not in the registry; every call returns a value.
C14_SymbolOfNormalized ==
    \A i \in 1..Len(lookups) :
        lookups[i].fn = "getCurrencySymbol" =>
            lookups[i].result =
                IF lookups[i].chainId.null \/ lookups[i].chainId.text = <<>>
                    \/ ~IsRegistered(normalizeChainId(lookups[i].chainId.text))
                THEN "ETH"
                ELSE NETWORKS[normalizeChainId(lookups[i].chainId.text)].currencySymbol

C14_Witness ==
    /\ Len(lookups) = 2
    /\ lookups[1] = Looked("getCurrencySymbol", Id(<<"0", "x", "3", "8">>), "BNB")
    /\ lookups[2] = Looked("getCurrencySymbol", Id(<<"9", "9", "9", "9", "9", "9">>), "ETH")

\* two lookups by the same operation of identifiers with one decimal form
\* have one outcome
LookupsAgree ==
    \A i, j \in 1..Len(lookups) :
        (/\ lookups[i].fn = lookups[j].fn
         /\ ~lookups[i].chainId.null /\ ~lookups[j].chainId.null
         /\ normalizeChainId(lookups[i].chainId.text)
                = normalizeChainId(lookups[j].chainId.text))
            => lookups[i].result = lookups[j].result

\* the add-chain fallback of switchNetwork finds the registry entry of the
\* decimal form of its chain identifier
AddFallbackNormalizes ==
    (/\ Settled("switchNetwork") /\ IsUnknownChain(log[1])
     /\ IsRegistered(normalizeChainId(args.chainId)))
        => /\ Len(log) >= 2
           /\ log[2].method = "wallet_addEthereumChain"
           /\ log[2].params.chainName = NETWORKS[normalizeChainId(args.chainId)].name

\* C15 (as claimed): every use of a chain identifier as a registry key is
\* preceded by normalization to its decimal string, so that for
\* isChainSupported, getCurrencySymbol, the header's network name and icon
\* and the add-chain fallback of switchNetwork a hex-prefixed identifier
\* and its decimal equivalent produce the same lookup outcome.
C15_NormalizedBeforeLookup == LookupsAgree /\ AddFallbackNormalizes

-----------------------------------------------------------------------------
(* Properties of the application state.                                    *)

\* C20 (as claimed): a provider-emitted chain-change notification updates
\* the connection state.  Whenever the provider emits chainChanged(c) while
\* a provider handle is held, then once the handler is through the
\* connection state's chain identifier is the decimal form of c, whatever
\* the outcome of any further provider request.
C20_ChainChangedUpdatesState ==
    (appCall.fn = "handleChainChanged" /\ appCall.at = "done") =>
        walletState.chainId = Id(normalizeChainId(appCall.notified))

\* the provider accepted one of the requests of the call
SomeRequestAccepted == \E i \in 1..Len(log) : log[i].reply = "resolved"

\* C28 (as claimed): switchNetwork resolves, and
\* switchNetworkAndUpdateState returns a state carrying the new chain
\* identifier, only if the provider accepted a wallet_switchEthereumChain
\* or a wallet_addEthereumChain request for that chain; a 4902 rejection
\* for a chain without registry entry does not end in a successful result.
C28_SuccessNeedsAcceptance ==
    /\ (Settled("switchNetwork") /\ outcome.state = "fulfilled") => SomeRequestAccepted
    /\ (/\ appCall.at = "done"
        /\ appCall.fn \in {"handleChainSelect", "handleChainChanged"}
        /\ appCall.state.isConnected
        /\ walletState = [appCall.state EXCEPT !.chainId = Id(appCall.chainId)]
        /\ appCall.state.chainId # Id(appCall.chainId))
            => SomeRequestAccepted

\* the step in which the waiting handler of the application goes on after
\* its await
Resumes(at) == appCall.at = at /\ appCall'.at = "done"

\* C21: failures of the best-effort operations are swallowed and change
\* nothing.  When the connectWallet call of autoConnect rejects, or the
\* chain switch of handleChainSelect rejects, the handler ends without an
\* error of its own and leaves the connection state, the
\* unsupported-network flag, the error, the notification flag and the
\* submitting flag as they were.
C21_FailuresSwallowed ==
    [][(\/ Resumes("connectWallet") /\ appCall'.notified = <<"rejected">>
        \/ Resumes("switchNetworkAndUpdateState") /\ outcome.state = "rejected")
          => UNCHANGED <<walletState, isUnsupportedChain, isSubmitting, appError,
                         showNotification>>]_vars

\* a chain picked in the selector was refused by the provider and the
\* handler ended with the state it started from
C21_Witness ==
    /\ appCall.fn = "handleChainSelect"
    /\ appCall.at = "done"
    /\ pc = [fn |-> "switchNetwork", at |-> "settled"]
    /\ outcome.state = "rejected"
    /\ walletState = appCall.state
    /\ walletState.chainId # Id(appCall.chainId)
    /\ appError = NoError
    /\ ~showNotification

\* C23 (as claimed): connection-state updates are atomic with respect to
\* in-flight requests.  If the user disconnects, or the provider reports an
\* account change, while the chain switch started by handleChainSelect is
\* pending, the completion of that request does not overwrite the newer
\* state: a disconnected state stays disconnected, a changed account stays
\* changed.
C23_NewerStateKept ==
    [][(Resumes("switchNetworkAndUpdateState") /\ walletState # appCall.state)
          => /\ walletState'.isConnected = walletState.isConnected
             /\ walletState'.account = walletState.account
             /\ walletState'.provider = walletState.provider]_vars

\* C25: the submitting flag brackets every submission.
\* handleTransactionSubmit sets isSubmitting before it calls sendTransaction
\* and clears it once that call has settled, whatever the result; the error
\* is then non-null if and only if the result was a failure.  Without a
\* provider in the connection state it records 'No wallet connected' and
\* neither sets isSubmitting nor issues a provider request.
C25_SubmittingBrackets ==
    [][/\ appCall'.at = "sendTransaction" =>
            /\ isSubmitting'
            /\ log'[1].method = "eth_accounts"
       /\ (appCall.at # "sendTransaction" /\ appCall'.at = "sendTransaction") =>
            /\ walletState.provider # Null
            /\ log' = <<Request("eth_accounts", NoParams)>>
       /\ Resumes("sendTransaction") =>
            /\ ~isSubmitting'
            /\ outcome.state = "fulfilled"
            /\ appError'.null <=> outcome.value.success
            /\ showNotification' <=> ~outcome.value.success
       /\ (appCall.at = "done" /\ appCall' = AppCallDone("handleTransactionSubmit")) =>
            /\ walletState.provider = Null
            /\ appError' = ErrorOf(<<"No wallet connected">>)
            /\ showNotification'
            /\ UNCHANGED <<isSubmitting, walletState, log, pc>>]_vars

\* a submission refused in the wallet ended with the flag cleared and the
\* provider's message as the error
C25_Witness ==
    /\ appCall.fn = "handleTransactionSubmit"
    /\ appCall.at = "done"
    /\ pc = [fn |-> "sendTransaction", at |-> "settled"]
    /\ ~outcome.value.success
    /\ ~isSubmitting
    /\ appError = ErrorOf(<<"User rejected the request.">>)
    /\ showNotification

\* C26: in every reachable connection state isConnected implies that the
\* account and the provider handle are both non-null, after any
\* interleaving of connect, auto-connect, disconnect, accountsChanged,
\* chainChanged and chain selection.
C26_ConnectedHasAccount ==
    walletState.isConnected =>
        /\ walletState.account # Null
        /\ walletState.provider # Null

\* the provider reported another account while connected
C26_Witness ==
    /\ appCall.fn = "handleAccountsChanged"
    /\ walletState.isConnected
    /\ walletState.account = "A2"
    /\ walletState.provider \in Handles

\* C29: the unsupported-network flag tracks the connection state.  In every
\* reachable state in which the wallet is connected with a non-null chain
\* identifier, isUnsupportedChain is true if and only if isChainSupported
\* of that identifier is false.
C29_FlagTracksChain ==
    (walletState.isConnected /\ ~walletState.chainId.null) =>
        (isUnsupportedChain <=> ~isChainSupported(walletState.chainId))

\* connected on chain 5, which the registry does not hold, with the flag set
C29_Witness ==
    /\ walletState.isConnected
    /\ walletState.chainId = Id(<<"5">>)
    /\ isUnsupportedChain

\* C24: the header keeps at most one chainChanged and one accountsChanged
\* handler registered; once the effects of a render have run the registered
\* handlers are those of the present connection state, so the handlers of an
\* earlier state are removed and none is registered without a provider; none
\* is registered after the unmount.
C24_NoDanglingSubscription ==
    /\ \A event \in {"chainChanged", "accountsChanged"} :
         Cardinality({i \in DOMAIN listeners : listeners[i].event = event}) <= 1
    /\ EffectsSettled =>
         /\ \A i \in DOMAIN listeners : listeners[i].closure = walletState
         /\ walletState.provider = Null => listeners = <<>>
    /\ appCall.fn = "unmounted" => listeners = <<>>

\* handlers were registered for one state, removed, and registered again for
\* the state after an account change
C24_Witness ==
    /\ appCall.fn = "handleAccountsChanged"
    /\ EffectsSettled
    /\ walletState.account = "A2"
    /\ Len(listeners) = 2
    /\ listeners[1].closure.account = "A2"

\* C27: the notification closes itself only after the ten ticks of its
\* countdown, counted from the moment it became visible (as claimed).
C27_FullCountdown ==
    [][(effectDeps' # effectDeps /\ showNotification /\ ~showNotification')
         => elapsed' = Countdown]_vars

\* C30: a stale EIP-7702 detection result is never applied.  When a call of
\* checkEIP7702Support is resumed after the props changed or the form was
\* unmounted, isEIP7702User and isCheckingEIP7702 stay as they are; when the
\* call made for the present props is resumed, isEIP7702User becomes the
\* result of the detection and isCheckingEIP7702 becomes false.
C30_StaleResultDropped ==
    [][Len(checks') < Len(checks) =>
         IF lastSettled'.run = effectRun /\ formProps.mounted
         THEN isEIP7702User' = lastSettled'.result /\ ~isCheckingEIP7702'
         ELSE UNCHANGED <<isEIP7702User, isCheckingEIP7702>>]_vars

\* a detection that found code was resumed after the props had changed, and
\* the check of the new props is still waiting
C30_Witness ==
    /\ lastSettled.result
    /\ lastSettled.run # 0
    /\ lastSettled.run < effectRun
    /\ ~isEIP7702User
    /\ isCheckingEIP7702
    /\ Len(checks) = 1

=============================================================================
